---- MODULE Spec2Model ----
(***************************************************************************)
(* Model of the two service classes of every-marketplace:                  *)
(*   RssService          (packages/rss-plugin/src/service.ts), backed by   *)
(*                       Redis keys feed:<id>, feed:<id>:items, item:<id>, *)
(*                       feeds:directory and the trending:* sorted sets;   *)
(*   MarketplaceService  (packages/marketplace-plugin/src/service.ts),     *)
(*                       backed by the relational tables of db/schema.ts   *)
(*                       and the marketplace:trending:* sorted sets.       *)
(* Each service method that writes is one action; each method that only    *)
(* reads is an operator over the current store.  The two plugins share no  *)
(* key and no table, so a behaviour drives one of them (variable plugin).  *)
(* Timestamps are in seconds: Date.now() and the cutoff                    *)
(* now - windowSeconds * 1000 are both divided by 1000.                    *)
(***************************************************************************)
EXTENDS Integers, Sequences, FiniteSets, TLC

VARIABLES
  plugin,          \* which plugin's service this behaviour drives
  now,             \* Date.now(), in seconds
  uuids,           \* values crypto.randomUUID() has returned so far
  \* ---- RssService: Redis ----
  kvFeed,          \* feed:<feedId>        -> JSON of the feed
  kvItems,         \* feed:<feedId>:items  -> list of item ids
  kvItem,          \* item:<itemId>        -> JSON of the item
  directory,       \* feeds:directory, in SMEMBERS order
  trending,        \* trending:<window>               (sorted sets)
  feedTrending,    \* trending:feed:<feedId>:<window> (sorted sets)
  \* ---- MarketplaceService: tables and Redis ----
  redis,           \* this.redis is set
  sellers, categories, collections, products,
  productImages, productCategories, collectionProducts,
  mktTrending,     \* marketplace:trending:<window>   (sorted sets)
  \* ---- calls whose store commands are issued one at a time ----
  calls,           \* slot -> the call running in it, with its locals
  \* ---- history of the calls made (not program state) ----
  lastOp,          \* the last completed write call
  created,         \* id -> input of a create whose id was not written since
  deleted,         \* product id -> the collections it was in when deleted
  lastView,        \* id -> time of its last successful recordView
  pushed           \* feedId -> item ids in the order they were submitted

rssVars == <<kvFeed, kvItems, kvItem, directory, trending, feedTrending>>
mktVars == <<redis, sellers, categories, collections, products,
             productImages, productCategories, collectionProducts, mktTrending>>
histVars == <<lastOp, created, deleted, lastView, pushed>>
vars == <<plugin, now, uuids, rssVars, mktVars, calls, histVars>>

----------------------------------------------------------------------------
\* Bounds of the model
MaxLimit == 2
MaxOffset == 2
MaxListLen == 2
MaxNow == 7200

\* Inputs the callers draw from
FeedIds == {"f1", "f2"}
CallerItemIds == {"a", "b"}
ItemUuids == {"u1"}
ItemIds == CallerItemIds \cup ItemUuids
Windows == {"1h", "24h", "7d", "30d"}
timeWindows == <<"1h", "24h", "7d", "30d">>
Labels == {"news", "tech", "technology"}
Deltas == {3600}

Null == [null |-> TRUE]
EmptyMap == [k \in {} |-> Null]
Min(a, b) == IF a < b THEN a ELSE b
SeqToSet(s) == {s[i] : i \in 1..Len(s)}
Perms(S) == {p \in [1..Cardinality(S) -> S] : \A x \in S : \E i \in DOMAIN p : p[i] = x}

\* Code-unit order of the strings used as ids and labels (String < in JS)
StrOrder == <<"a", "b", "f1", "f2", "news", "p0", "p1", "p2", "tech", "technology", "u1">>
StrRank(s) == CHOOSE i \in 1..Len(StrOrder) : StrOrder[i] = s
StrLess(s, t) == StrRank(s) < StrRank(t)

\* new Date(str).getTime() / 1000 for the date strings in use
DateGetTime(str) ==
  CASE str = "1970-01-01T01:00:00Z" -> 3600
    [] str = "1970-01-01T02:00:00Z" -> 7200
    [] str = "1970-01-01T03:00:00+01:00" -> 7200

\* JSON.stringify / JSON.parse over the values stored
JSONstringify(v) == [json |-> v]
JSONparse(s) == s.json

----------------------------------------------------------------------------
\* Redis commands
GET(kv, key) == IF key \in DOMAIN kv THEN kv[key] ELSE Null
SETKEY(kv, key, val) == [k \in DOMAIN kv \cup {key} |-> IF k = key THEN val ELSE kv[k]]
DEL(kv, key) == [k \in DOMAIN kv \ {key} |-> kv[k]]
RECURSIVE DELALL(_, _)
DELALL(kv, keys) == IF keys = <<>> THEN kv ELSE DELALL(DEL(kv, Head(keys)), Tail(keys))
LPUSH(list, x) == <<x>> \o list
LRANGE(list) == list
ZADD_IfAbsent(z, score, member) ==
  [m \in DOMAIN z \cup {member} |-> IF m \in DOMAIN z THEN z[m] ELSE score]
ZADD(z, score, member) ==
  [m \in DOMAIN z \cup {member} |-> IF m = member THEN score ELSE z[m]]
\* a sorted set orders by score, members of equal score by their bytes
ZBefore_Ascending(z, m1, m2) == z[m1] < z[m2] \/ (z[m1] = z[m2] /\ StrLess(m1, m2))
ZBefore(z, m1, m2) == z[m1] > z[m2] \/ (z[m1] = z[m2] /\ StrLess(m2, m1))
ZRevAll(z, S) ==
  [i \in 1..Cardinality(S) |->
     CHOOSE m \in S : Cardinality({x \in S : ZBefore(z, x, m)}) = i - 1]
\* ZREVRANGEBYSCORE key +inf min LIMIT 0 count
ZREVRANGEBYSCORE_NoMin(z, min, count) ==
  LET all == ZRevAll(z, DOMAIN z)
  IN  SubSeq(all, 1, Min(count, Len(all)))
ZREVRANGEBYSCORE(z, min, count) ==
  LET S == {m \in DOMAIN z : z[m] >= min}
      all == ZRevAll(z, S)
  IN  SubSeq(all, 1, Min(count, Len(all)))
EmptyZ == [m \in {} |-> 0]

----------------------------------------------------------------------------
\* RssService: read operations
RECURSIVE ResolveItems(_)
ResolveItems(itemIds) ==
  IF itemIds = <<>> THEN <<>>
  ELSE LET itemData == GET(kvItem, Head(itemIds))
       IN  (IF itemData # Null
              THEN <<JSONparse(itemData)>> ELSE <<>>)
           \o ResolveItems(Tail(itemIds))

RECURSIVE ResolveFeeds(_)
ResolveFeeds(feedIds) ==
  IF feedIds = <<>> THEN <<>>
  ELSE LET feedData == GET(kvFeed, Head(feedIds))
       IN  (IF feedData # Null
              THEN <<JSONparse(feedData)>> ELSE <<>>)
           \o ResolveFeeds(Tail(feedIds))

getFeeds == ResolveFeeds(directory)

getFeed(feedId) ==
  LET feedData == GET(kvFeed, feedId)
  IN  IF feedData # Null THEN JSONparse(feedData) ELSE Null

getFeedItems(feedId) == ResolveItems(LRANGE(kvItems[feedId]))

getFeedItem(feedId, itemId) ==
  LET itemData == GET(kvItem, itemId)
  IN  IF itemData # Null THEN JSONparse(itemData) ELSE Null

\* new Date(item.published || item.date).getTime()
ItemTime(item) ==
  DateGetTime(IF item.published # "" THEN item.published ELSE item.date)

\* Array.prototype.sort((a, b) => dateB - dateA): stable, newest first
InsertNewestFirst(sorted, x) ==
  LET later == {i \in 1..Len(sorted) : ItemTime(sorted[i]) < ItemTime(x)}
      k == IF later = {} THEN Len(sorted) + 1
           ELSE CHOOSE i \in later : \A j \in later : i <= j
  IN  SubSeq(sorted, 1, k - 1) \o <<x>> \o SubSeq(sorted, k, Len(sorted))
RECURSIVE SortNewestFirst(_)
SortNewestFirst(s) ==
  IF s = <<>> THEN <<>>
  ELSE InsertNewestFirst(SortNewestFirst(SubSeq(s, 1, Len(s) - 1)), s[Len(s)])

\* Array.prototype.slice(start, end)
Slice(s, start, end) == SubSeq(s, start + 1, Min(end, Len(s)))

\* options of the aggregation calls; limit 0 and since "" stand for "not given"
DefaultLimit == 50
PageOf_EndIsLimit(s, options) ==
  Slice(s, options.offset, IF options.limit # 0 THEN options.limit ELSE DefaultLimit)
PageOf(s, options) ==
  LET start == options.offset
      end == start + (IF options.limit # 0 THEN options.limit ELSE DefaultLimit)
  IN  Slice(s, start, end)

RECURSIVE ScanAllItems(_, _)
ScanAllItems(feedIds, since) ==
  IF feedIds = <<>> THEN <<>>
  ELSE SelectSeq(ResolveItems(LRANGE(kvItems[Head(feedIds)])),
                 LAMBDA item : ~(since # "" /\ ItemTime(item) < DateGetTime(since)))
       \o ScanAllItems(Tail(feedIds), since)

getAllFeedItems(options) ==
  PageOf(SortNewestFirst(ScanAllItems(directory, options.since)), options)

\* the labels of one item: cat.name and cat.term when set
ItemLabels(item) ==
  ({item.category[i].name : i \in 1..Len(item.category)} \cup
   {item.category[i].term : i \in 1..Len(item.category)}) \ {""}
FeedRecordLabels(feed) ==
  SeqToSet(feed.categories) \cup
  UNION {ItemLabels(feed.items[i]) : i \in 1..Len(feed.items)}

\* Array.from(set).sort()
SortStrings(S) ==
  [i \in 1..Cardinality(S) |->
     CHOOSE s \in S : Cardinality({t \in S : StrLess(t, s)}) = i - 1]

getAllCategories ==
  LET feeds == getFeeds
  IN  SortStrings(UNION {FeedRecordLabels(feeds[i]) : i \in 1..Len(feeds)})

hasCategory_NameOnly(item, category) ==
  \E i \in 1..Len(item.category) : item.category[i].name = category
hasCategory(item, category) ==
  \E i \in 1..Len(item.category) :
     item.category[i].name = category \/ item.category[i].term = category

RECURSIVE ScanMatchingItems(_, _)
ScanMatchingItems(feedIds, category) ==
  IF feedIds = <<>> THEN <<>>
  ELSE SelectSeq(ResolveItems(LRANGE(kvItems[Head(feedIds)])),
                 LAMBDA item : hasCategory(item, category))
       \o ScanMatchingItems(Tail(feedIds), category)

getItemsByCategory(category, options) ==
  PageOf(SortNewestFirst(ScanMatchingItems(directory, category)), options)

RECURSIVE CountListed(_)
CountListed(feedIds) ==
  IF feedIds = <<>> THEN 0
  ELSE Len(LRANGE(kvItems[Head(feedIds)])) + CountListed(Tail(feedIds))

getStats ==
  LET feedIds == directory
      feeds == ResolveFeeds(feedIds)
      labels == UNION {FeedRecordLabels(feeds[i]) : i \in 1..Len(feeds)}
  IN  [totalFeeds |-> Len(feedIds),
       totalItems |-> CountListed(feedIds),
       totalCategories |-> Cardinality(labels)]

getTimeWindowSeconds(timeWindow) ==
  CASE timeWindow = "1h" -> 3600
    [] timeWindow = "24h" -> 86400
    [] timeWindow = "7d" -> 604800
    [] timeWindow = "30d" -> 2592000
    [] OTHER -> 86400

\* options?.limit || 10; limit 0 stands for "not given"
DefaultTrendingLimit == 10
TrendingLimit(limit) == IF limit # 0 THEN limit ELSE DefaultTrendingLimit

getTrendingItems(timeWindow, limit) ==
  LET cutoffTime == now - getTimeWindowSeconds(timeWindow)
  IN  ResolveItems(ZREVRANGEBYSCORE(trending[timeWindow], cutoffTime,
                                    TrendingLimit(limit)))

getFeedTrending(feedId, timeWindow, limit) ==
  LET cutoffTime == now - getTimeWindowSeconds(timeWindow)
  IN  ResolveItems(ZREVRANGEBYSCORE(feedTrending[feedId][timeWindow], cutoffTime,
                                    TrendingLimit(limit)))

\* outcome of a call that can fail: a value, or the error it rejects with
Ok(value) == [ok |-> TRUE, value |-> value]
Fail(name, message) == [ok |-> FALSE, error |-> [name |-> name, message |-> message]]

\* generateRssXml / generateAtomXml: the document's root element, the channel
\* title and link, and one entry per item embedded in the feed record
BaseUrl == "http://localhost:1337"
generateRssXml(feed, baseUrl) ==
  [root |-> "rss", title |-> feed.options.title,
   link |-> <<baseUrl, feed.options.id>>,
   entries |-> [i \in 1..Len(feed.items) |-> feed.items[i].title]]
generateAtomXml(feed, baseUrl) ==
  [root |-> "feed", title |-> feed.options.title,
   link |-> <<baseUrl, feed.options.id>>,
   entries |-> [i \in 1..Len(feed.items) |-> feed.items[i].title]]

\* throw new Error(`Feed ${feedId} not found`), rewrapped by the catch clause
getFeedRss(feedId) ==
  LET feed == getFeed(feedId)
  IN  IF feed = Null
        THEN Fail("Error", <<"Failed to generate RSS: ", "Feed ", feedId, " not found">>)
        ELSE Ok(generateRssXml(feed, BaseUrl))
getFeedAtom(feedId) ==
  LET feed == getFeed(feedId)
  IN  IF feed = Null
        THEN Fail("Error", <<"Failed to generate Atom: ", "Feed ", feedId, " not found">>)
        ELSE Ok(generateAtomXml(feed, BaseUrl))

\* RPC handlers of the lookups (createRouter)
getFeedHandler(feedId) == Ok(getFeed(feedId))
getFeedItemHandler_NoFeedCheck(feedId, itemId) ==
  Ok([item |-> getFeedItem(feedId, itemId), feedTitle |-> ""])
getFeedItemHandler(feedId, itemId) ==
  LET item == getFeedItem(feedId, itemId)
      feed == getFeed(feedId)
  IN  IF feed = Null
        THEN Fail("NOT_FOUND", <<"Feed ", feedId, " not found">>)
        ELSE Ok([item |-> item, feedTitle |-> feed.options.title])

----------------------------------------------------------------------------
\* Inputs of the RssService write calls
ItemA == [id |-> "a", title |-> "A", date |-> "1970-01-01T02:00:00Z",
          published |-> "1970-01-01T02:00:00Z",
          category |-> <<[name |-> "tech", term |-> ""]>>]
ItemB == [id |-> "b", title |-> "B", date |-> "1970-01-01T01:00:00Z",
          published |-> "",
          category |-> <<[name |-> "", term |-> "news"]>>]
ItemNoId == [id |-> "", title |-> "C", date |-> "1970-01-01T01:00:00Z",
             published |-> "1970-01-01T03:00:00+01:00",
             category |-> <<>>]
ItemPool == {ItemA, ItemB, ItemNoId}
Feed1 == [options |-> [id |-> "f1", title |-> "One"],
          items |-> <<ItemA, ItemB>>, categories |-> <<"technology", "news">>]
Feed1Empty == [options |-> [id |-> "f1", title |-> "One again"],
               items |-> <<>>, categories |-> <<"tech">>]
Feed2 == [options |-> [id |-> "f2", title |-> "Two"],
          items |-> <<ItemA>>, categories |-> <<>>]
Feed2NoId == [options |-> [id |-> "f2", title |-> "Two"],
              items |-> <<ItemNoId>>, categories |-> <<"news">>]
FeedPool == {Feed1, Feed1Empty, Feed2, Feed2NoId}

\* SADD / SREM on feeds:directory: the order SMEMBERS yields is unspecified
SADD(dir, member, newDir) ==
  IF member \in SeqToSet(dir) THEN newDir = dir
  ELSE newDir \in Perms(SeqToSet(dir) \cup {member})
SREM_Kept(dir, member, newDir) == newDir = dir
SREM(dir, member, newDir) ==
  IF member \notin SeqToSet(dir) THEN newDir = dir
  ELSE newDir \in Perms(SeqToSet(dir) \ {member})

\* item.id || crypto.randomUUID(), for each item of a call
AssignedIds(items) ==
  {ids \in [1..Len(items) -> ItemIds] :
     /\ \A i \in 1..Len(items) :
          IF items[i].id # "" THEN ids[i] = items[i].id
          ELSE ids[i] \in ItemUuids \ uuids
     /\ \A i, j \in 1..Len(items) :
          (i # j /\ items[i].id = "" /\ items[j].id = "") => ids[i] # ids[j]}
FreshIn(items, ids) == {ids[i] : i \in {j \in 1..Len(items) : items[j].id = ""}}

\* { ...item, id: itemId }
itemWithId_Unassigned(item, itemId) == item
itemWithId(item, itemId) == [item EXCEPT !.id = itemId]

\* the loop of addFeed: set item:<id>, lpush feed:<feedId>:items
RECURSIVE StoreItemRecords(_, _, _)
StoreItemRecords(kv, items, ids) ==
  IF items = <<>> THEN kv
  ELSE StoreItemRecords(
         SETKEY(kv, Head(ids), JSONstringify(itemWithId(Head(items), Head(ids)))),
         Tail(items), Tail(ids))
RECURSIVE PushAll(_, _)
PushAll(list, ids) ==
  IF ids = <<>> THEN list ELSE PushAll(LPUSH(list, Head(ids)), Tail(ids))

Forget(hist, ids) == [k \in DOMAIN hist \ ids |-> hist[k]]

addFeed(feed) ==
  LET feedId == feed.options.id
      existingFeed == GET(kvFeed, feedId)
      oldItemIds == IF existingFeed # Null THEN LRANGE(kvItems[feedId]) ELSE <<>>
      itemsCleared == IF existingFeed # Null THEN DELALL(kvItem, oldItemIds) ELSE kvItem
      listCleared == IF existingFeed # Null THEN <<>> ELSE kvItems[feedId]
  IN  /\ plugin = "rss"
      /\ Len(listCleared) + Len(feed.items) <= MaxListLen
      /\ \E ids \in AssignedIds(feed.items) :
           /\ kvFeed' = SETKEY(kvFeed, feedId, JSONstringify(feed))
           /\ SADD(directory, feedId, directory')
           /\ kvItem' = StoreItemRecords(itemsCleared, feed.items, ids)
           /\ kvItems' = [kvItems EXCEPT ![feedId] = PushAll(listCleared, ids)]
           /\ uuids' = uuids \cup FreshIn(feed.items, ids)
           /\ lastOp' = [op |-> "addFeed", feedId |-> feedId, itemIds |-> ids,
                         ret |-> feedId]
           /\ created' = Forget(created, SeqToSet(oldItemIds) \cup SeqToSet(ids))
           /\ pushed' = [pushed EXCEPT ![feedId] =
                           (IF existingFeed # Null THEN <<>> ELSE pushed[feedId]) \o ids]
      /\ UNCHANGED <<plugin, calls, now, trending, feedTrending, mktVars, deleted, lastView>>

addFeedItem(feedId, item) ==
  /\ plugin = "rss"
  /\ Len(kvItems[feedId]) < MaxListLen
  /\ \E ids \in AssignedIds(<<item>>) :
       LET itemId == ids[1]
       IN  /\ kvItem' = SETKEY(kvItem, itemId, JSONstringify(itemWithId(item, itemId)))
           /\ kvItems' = [kvItems EXCEPT ![feedId] = LPUSH(kvItems[feedId], itemId)]
           /\ uuids' = uuids \cup FreshIn(<<item>>, ids)
           /\ lastOp' = [op |-> "addFeedItem", feedId |-> feedId, itemIds |-> ids,
                         ret |-> itemId]
           /\ created' = SETKEY(created, itemId, item)
           /\ pushed' = [pushed EXCEPT ![feedId] = Append(pushed[feedId], itemId)]
  /\ UNCHANGED <<plugin, calls, now, kvFeed, directory, trending, feedTrending, mktVars, deleted, lastView>>

\* for (const itemId of itemIds) del item:<itemId>
DeleteFeedItems_Skipped(kv, itemIds) == kv
DeleteFeedItems(kv, itemIds) == DELALL(kv, itemIds)

deleteFeed(feedId) ==
  LET itemIds == LRANGE(kvItems[feedId])
  IN  /\ plugin = "rss"
      /\ kvItem' = DeleteFeedItems(kvItem, itemIds)
      /\ kvItems' = [kvItems EXCEPT ![feedId] = <<>>]
      /\ kvFeed' = DEL(kvFeed, feedId)
      /\ SREM(directory, feedId, directory')
      /\ lastOp' = [op |-> "deleteFeed", feedId |-> feedId, itemIds |-> itemIds,
                    ret |-> ""]
      /\ created' = Forget(created, SeqToSet(itemIds))
      /\ pushed' = [pushed EXCEPT ![feedId] = <<>>]
      /\ UNCHANGED <<plugin, calls, now, uuids, trending, feedTrending, mktVars, deleted, lastView>>

\* the first feed of the directory whose item list includes itemId, if any
OwnerFeeds(itemId) ==
  {i \in 1..Len(directory) : itemId \in SeqToSet(LRANGE(kvItems[directory[i]]))}
\* for (const window of timeWindows) zadd <prefix>:<window> now id
ZADDAll_FirstWindowOnly(zsets, score, member) ==
  [w \in DOMAIN zsets |-> IF w = timeWindows[1]
                            THEN ZADD(zsets[w], score, member) ELSE zsets[w]]
ZADDAll_Reset(zsets, score, member) ==
  [w \in DOMAIN zsets |-> IF w \in SeqToSet(timeWindows)
                            THEN ZADD(EmptyZ, score, member) ELSE zsets[w]]
ZADDAll(zsets, score, member) ==
  [w \in DOMAIN zsets |-> IF w \in SeqToSet(timeWindows)
                            THEN ZADD(zsets[w], score, member) ELSE zsets[w]]

trackItemView(itemId) ==
  LET owners == OwnerFeeds(itemId)
  IN  /\ plugin = "rss"
      /\ trending' = ZADDAll(trending, now, itemId)
      /\ IF owners = {} THEN feedTrending' = feedTrending
         ELSE LET feedId == directory[CHOOSE i \in owners : \A j \in owners : i <= j]
              IN  feedTrending' = [feedTrending EXCEPT ![feedId] = ZADDAll(@, now, itemId)]
      /\ lastView' = SETKEY(lastView, itemId, now)
      /\ lastOp' = [op |-> "trackItemView", feedId |-> "", itemIds |-> <<itemId>>,
                    ret |-> ""]
      /\ UNCHANGED <<plugin, calls, now, uuids, kvFeed, kvItems, kvItem, directory,
                     mktVars, created, deleted, pushed>>

\* time passes between calls
Tick(d) ==
  /\ now + d <= MaxNow
  /\ now' = now + d
  /\ UNCHANGED <<plugin, calls, uuids, rssVars, mktVars, histVars>>

----------------------------------------------------------------------------
\* MarketplaceService: inputs
SellerIds == {"s1"}
CollectionIds == {"c1"}
ProductIds == {"p1", "p2"}
CategoryIds == {"k1"}
Positions == {0, 1}
NoPosition == -1
SeedCategories == {[id |-> "k1", name |-> "Books"]}
SellerInput1 == [name |-> "Shop"]
CollectionInput1 == [sellerId |-> "s1", name |-> "Picks"]
ProductX == [sellerId |-> "s1", name |-> "X", description |-> "dx", price |-> 10,
             currency |-> "USD", availability |-> "InStock", stockQuantity |-> 5,
             sku |-> "SKU-X", gtin |-> "", brand |-> "",
             images |-> <<[url |-> "x0.png", position |-> NoPosition],
                          [url |-> "x1.png", position |-> NoPosition]>>,
             categoryIds |-> <<"k1">>]
ProductY == [sellerId |-> "s1", name |-> "Y", description |-> "", price |-> 20,
             currency |-> "EUR", availability |-> "OutOfStock", stockQuantity |-> 0,
             sku |-> "", gtin |-> "", brand |-> "Acme",
             images |-> <<>>, categoryIds |-> <<>>]
ProductPool == {ProductX, ProductY}

\* MarketplaceService: read operations
RowOfInput(productId, input) ==
  [id |-> productId, sellerId |-> input.sellerId, name |-> input.name,
   description |-> input.description, price |-> input.price,
   currency |-> input.currency, availability |-> input.availability,
   stockQuantity |-> input.stockQuantity, sku |-> input.sku, gtin |-> input.gtin,
   brand |-> input.brand, createdAt |-> now, updatedAt |-> now]

\* the orders an ORDER BY position may return the rows in (ties are unspecified)
OrdersByPosition_Any(rows) == Perms(rows)
OrdersByPosition(rows) ==
  {p \in Perms(rows) : \A i, j \in DOMAIN p : i < j => p[i].position <= p[j].position}

\* getProduct yields one of these; images / categories undefined are <<>> / {}
getProduct(id, includeImages, includeCategories) ==
  IF id \notin DOMAIN products THEN {Null}
  ELSE LET imageOrders ==
             IF includeImages
               THEN OrdersByPosition({img \in productImages : img.productId = id})
               ELSE {<<>>}
           categoryIds ==
             {pc.categoryId : pc \in {r \in productCategories : r.productId = id}}
           cats ==
             IF includeCategories
               THEN {[id |-> c.id, name |-> c.name] :
                       c \in {r \in categories : r.id \in categoryIds}}
               ELSE {}
       IN  {[row |-> products[id], images |-> images, categories |-> cats] :
              images \in imageOrders}

\* getCollection yields one of these; products undefined is <<>>
getCollection(id, includeProducts) ==
  IF id \notin DOMAIN collections THEN {Null}
  ELSE LET memberOrders ==
             IF includeProducts
               THEN OrdersByPosition({cp \in collectionProducts : cp.collectionId = id})
               ELSE {<<>>}
           Resolve(order) ==
             SelectSeq([i \in DOMAIN order |->
                          CHOOSE p \in getProduct(order[i].productId, FALSE, FALSE) : TRUE],
                       LAMBDA product : product # Null)
       IN  {[row |-> collections[id], products |-> Resolve(order)] :
              order \in memberOrders}

getSeller(id) ==
  IF id \notin DOMAIN sellers THEN Null
  ELSE [id |-> id, name |-> sellers[id].name, createdAt |-> sellers[id].createdAt]
getCategory(id) ==
  IF \E c \in categories : c.id = id
    THEN CHOOSE c \in categories : c.id = id
    ELSE Null

\* RPC handlers of the lookups (createRouter): the service result, as it is
getProductHandler(productId, includeImages, includeCategories) ==
  {Ok(out) : out \in getProduct(productId, includeImages, includeCategories)}
getCollectionHandler(collectionId, includeProducts) ==
  {Ok(out) : out \in getCollection(collectionId, includeProducts)}
getSellerHandler(sellerId) == Ok(getSeller(sellerId))
getCategoryHandler(categoryId) == Ok(getCategory(categoryId))

RECURSIVE ResolveTrendingProducts(_, _, _)
ResolveTrendingProducts(trendingIds, categoryId, limit) ==
  IF trendingIds = <<>> \/ limit = 0 THEN <<>>
  ELSE LET product == CHOOSE p \in getProduct(Head(trendingIds), FALSE, FALSE) : TRUE
       IN  IF product = Null
             THEN ResolveTrendingProducts(Tail(trendingIds), categoryId, limit)
           ELSE IF categoryId # "" /\ ~(\E cat \in product.categories : cat.id = categoryId)
             THEN ResolveTrendingProducts(Tail(trendingIds), categoryId, limit)
           ELSE <<product>> \o ResolveTrendingProducts(Tail(trendingIds), categoryId, limit - 1)

getTrendingProducts(timeWindow, categoryId, limit) ==
  IF ~redis THEN <<>>
  ELSE LET cutoffTime == now - getTimeWindowSeconds(timeWindow)
           trendingIds ==
             ZREVRANGEBYSCORE(mktTrending[timeWindow], cutoffTime,
                              IF categoryId # "" THEN limit * 2 ELSE limit)
       IN  ResolveTrendingProducts(trendingIds, categoryId, limit)

\* MarketplaceService: write operations
\* crypto.randomUUID() returns a value no caller has seen; a caller names an id
\* a create returned, or one of its own that no create will return
Fresh(pool) == pool \ uuids
ForeignProductIds == {"p0"}
NamedProductIds == (ProductIds \cap uuids) \cup ForeignProductIds
NamedItemIds == CallerItemIds \cup (ItemUuids \cap uuids)
MktOp(op, id, ret) == [op |-> op, id |-> id, ret |-> ret]

createSeller(input) ==
  /\ plugin = "marketplace"
  /\ \E sellerId \in Fresh(SellerIds) :
       /\ sellers' = SETKEY(sellers, sellerId, [name |-> input.name, createdAt |-> now])
       /\ uuids' = uuids \cup {sellerId}
       /\ lastOp' = MktOp("createSeller", sellerId, sellerId)
  /\ UNCHANGED <<plugin, calls, now, rssVars, redis, categories, collections, products,
                 productImages, productCategories, collectionProducts, mktTrending,
                 created, deleted, lastView, pushed>>

\* a foreign key to a missing seller rejects the insert
createCollection(input) ==
  /\ plugin = "marketplace"
  /\ \E collectionId \in Fresh(CollectionIds) :
       /\ uuids' = uuids \cup {collectionId}
       /\ IF input.sellerId \in DOMAIN sellers
            THEN /\ collections' = SETKEY(collections, collectionId,
                                     [sellerId |-> input.sellerId, name |-> input.name])
                 /\ lastOp' = MktOp("createCollection", collectionId, collectionId)
            ELSE /\ collections' = collections
                 /\ lastOp' = MktOp("createCollection", collectionId, "error")
  /\ UNCHANGED <<plugin, calls, now, rssVars, redis, sellers, categories, products,
                 productImages, productCategories, collectionProducts, mktTrending,
                 created, deleted, lastView, pushed>>

ImageRows_None(productId, input) == {}
ImageRows(productId, input) ==
  {[productId |-> productId, url |-> input.images[i].url,
    position |-> IF input.images[i].position # NoPosition
                   THEN input.images[i].position ELSE i - 1] :
     i \in 1..Len(input.images)}
CategoryRows(productId, input) ==
  {[productId |-> productId, categoryId |-> input.categoryIds[i]] :
     i \in 1..Len(input.categoryIds)}

\* three inserts, each its own statement: a rejected one leaves the earlier ones
createProduct(input) ==
  /\ plugin = "marketplace"
  /\ \E productId \in Fresh(ProductIds) :
       LET sellerOk == input.sellerId \in DOMAIN sellers
           categoriesOk ==
             /\ \A i \in 1..Len(input.categoryIds) :
                  input.categoryIds[i] \in {c.id : c \in categories}
             /\ Cardinality(CategoryRows(productId, input)) = Len(input.categoryIds)
       IN  /\ uuids' = uuids \cup {productId}
           /\ products' = IF sellerOk
                            THEN SETKEY(products, productId, RowOfInput(productId, input))
                            ELSE products
           /\ productImages' = IF sellerOk
                                 THEN productImages \cup ImageRows(productId, input)
                                 ELSE productImages
           /\ productCategories' = IF sellerOk /\ categoriesOk
                                     THEN productCategories \cup CategoryRows(productId, input)
                                     ELSE productCategories
           /\ lastOp' = MktOp("createProduct", productId,
                              IF sellerOk /\ categoriesOk THEN productId ELSE "error")
           /\ created' = IF sellerOk /\ categoriesOk
                           THEN SETKEY(created, productId, input) ELSE created
  /\ UNCHANGED <<plugin, calls, now, rssVars, redis, sellers, categories, collections,
                 collectionProducts, mktTrending, deleted, lastView, pushed>>

\* the fields updateProduct copies from updates when they are not undefined
UpdatableFields == {"name", "description", "price", "currency", "availability",
                    "stockQuantity", "sku", "gtin", "brand"}
\* updates a caller may send (ProductUpdate: every ProductInput field optional,
\* images and categoryIds left out)
UpdatePool == {EmptyMap, [name |-> "X2"], [price |-> 30, stockQuantity |-> 1],
               [sellerId |-> "s9"]}

\* if (Object.keys(values).length > 1), i.e. more than just updatedAt
WriteIssued_Always(values) == TRUE
WriteIssued(values) == Cardinality(DOMAIN values) > 1

updateProduct(id, updates) ==
  LET values == [f \in (DOMAIN updates \cap UpdatableFields) \cup {"updatedAt"} |->
                   IF f = "updatedAt" THEN now ELSE updates[f]]
      written == WriteIssued(values) /\ id \in DOMAIN products
  IN  /\ plugin = "marketplace"
      /\ products' =
           IF written
             THEN [products EXCEPT ![id] =
                     [f \in DOMAIN @ |-> IF f \in DOMAIN values THEN values[f] ELSE @[f]]]
             ELSE products
      /\ lastOp' = MktOp("updateProduct", id, "success")
      /\ created' = IF written THEN Forget(created, {id}) ELSE created
      /\ UNCHANGED <<plugin, calls, now, uuids, rssVars, redis, sellers, categories, collections,
                     productImages, productCategories, collectionProducts, mktTrending,
                     deleted, lastView, pushed>>

\* references(() => products.id, { onDelete: "cascade" })
OnDeleteCascade_NoAction(rows, id) == rows
OnDeleteCascade(rows, id) == {r \in rows : r.productId # id}

deleteProduct(id) ==
  /\ plugin = "marketplace"
  /\ products' = DEL(products, id)
  /\ productImages' = OnDeleteCascade(productImages, id)
  /\ productCategories' = OnDeleteCascade(productCategories, id)
  /\ collectionProducts' = OnDeleteCascade(collectionProducts, id)
  /\ lastOp' = MktOp("deleteProduct", id, "success")
  /\ created' = Forget(created, {id})
  /\ deleted' = SETKEY(deleted, id,
                       {r.collectionId : r \in {x \in collectionProducts : x.productId = id}})
  /\ UNCHANGED <<plugin, calls, now, uuids, rssVars, redis, sellers, categories, collections,
                 mktTrending, lastView, pushed>>

addProductToCollection(input) ==
  LET existing == {r \in collectionProducts :
                     r.collectionId = input.collectionId /\ r.productId = input.productId}
      fkOk == input.collectionId \in DOMAIN collections /\ input.productId \in DOMAIN products
  IN  /\ plugin = "marketplace"
      /\ IF existing # {}
           THEN /\ collectionProducts' =
                     (collectionProducts \ existing) \cup
                     {[r EXCEPT !.position = input.position] : r \in existing}
                /\ lastOp' = MktOp("addProductToCollection", input.productId, "success")
         ELSE IF fkOk
           THEN /\ collectionProducts' = collectionProducts \cup
                     {[collectionId |-> input.collectionId,
                       productId |-> input.productId, position |-> input.position]}
                /\ lastOp' = MktOp("addProductToCollection", input.productId, "success")
         ELSE /\ collectionProducts' = collectionProducts
              /\ lastOp' = MktOp("addProductToCollection", input.productId, "error")
      /\ UNCHANGED <<plugin, calls, now, uuids, rssVars, redis, sellers, categories, collections,
                     products, productImages, productCategories, mktTrending,
                     created, deleted, lastView, pushed>>

removeProductFromCollection(collectionId, productId) ==
  /\ plugin = "marketplace"
  /\ collectionProducts' =
       {r \in collectionProducts :
          ~(r.collectionId = collectionId /\ r.productId = productId)}
  /\ lastOp' = MktOp("removeProductFromCollection", productId, "success")
  /\ UNCHANGED <<plugin, calls, now, uuids, rssVars, redis, sellers, categories, collections,
                 products, productImages, productCategories, mktTrending,
                 created, deleted, lastView, pushed>>

\* if (!this.redis) return { success: true }; otherwise zadd for every window
TrackedScores_Unguarded(zsets, productId) == ZADDAll(zsets, now, productId)
TrackedScores(zsets, productId) ==
  IF ~redis THEN zsets ELSE ZADDAll(zsets, now, productId)

trackProductView(input) ==
  /\ plugin = "marketplace"
  /\ mktTrending' = TrackedScores(mktTrending, input.productId)
  /\ lastView' = SETKEY(lastView, input.productId, now)
  /\ lastOp' = MktOp("trackProductView", input.productId, "success")
  /\ UNCHANGED <<plugin, calls, now, uuids, rssVars, redis, sellers, categories, collections,
                 products, productImages, productCategories, collectionProducts,
                 created, deleted, pushed>>

----------------------------------------------------------------------------
\* The server's app router (createAppRouter): the plugin router is spread in,
\* then the procedures listed under protectedProcedure.router replace the
\* entries of the same key
PluginRoutes ==
  {"getProducts", "getProduct", "createProduct", "updateProduct", "deleteProduct",
   "searchProducts", "getCollections", "getCollection", "createCollection",
   "addProductToCollection", "removeProductFromCollection", "getSellers",
   "getSeller", "createSeller", "getSellerProducts", "getSellerCollections"}
ProtectedRoutes ==
  {"createProduct", "updateProduct", "deleteProduct", "createCollection",
   "addProductToCollection", "removeProductToCollection", "createSeller"}
MountedRoutes == PluginRoutes \cup ProtectedRoutes
\* protectedProcedure rejects a call made without an authenticated session
SessionAllows(route, authenticated) == route \in ProtectedRoutes => authenticated

appRouterCall(route, authenticated) ==
  /\ route \in MountedRoutes
  /\ SessionAllows(route, authenticated)
  /\ CASE route = "createProduct" -> \E input \in ProductPool : createProduct(input)
       [] route = "updateProduct" ->
            \E id \in NamedProductIds, updates \in UpdatePool : updateProduct(id, updates)
       [] route = "deleteProduct" -> \E id \in NamedProductIds : deleteProduct(id)
       [] route = "createCollection" -> createCollection(CollectionInput1)
       [] route = "addProductToCollection" ->
            \E c \in CollectionIds, p \in NamedProductIds, pos \in Positions :
              addProductToCollection([collectionId |-> c, productId |-> p,
                                      position |-> pos])
       [] route = "removeProductFromCollection" ->
            \E c \in CollectionIds, p \in NamedProductIds :
              removeProductFromCollection(c, p)
       [] route = "createSeller" -> createSeller(SellerInput1)
       [] OTHER -> FALSE

----------------------------------------------------------------------------
\* Calls whose awaits are separate steps: a call occupies a slot from its
\* invocation until its promise settles; every await of a store command is one
\* step, and the steps of two calls in flight interleave freely.
Slots == {1, 2}
Other(c) == 3 - c
Idle == [op |-> "idle", pc |-> "idle", joined |-> FALSE]
Settled == {"idle", "returned", "failed"}
InFlight(c) == calls[c].pc \notin Settled
Quiet == \A c \in Slots : ~InFlight(c)
\* at most two calls overlap: a call starts alone, in slot 1, or joins in slot 2
\* a call that runs alone
CanStart(c) ==
  IF c = 1 THEN Quiet ELSE ~InFlight(c) /\ InFlight(1) /\ ~calls[1].joined
Begin(c, call) ==
  calls' = [d \in Slots |->
              IF d = c THEN [joined |-> InFlight(Other(c))] @@ call
              ELSE IF InFlight(d) THEN [calls[d] EXCEPT !.joined = TRUE]
              ELSE Idle]
Running(c, op, pc) == calls[c].op = op /\ calls[c].pc = pc
Becomes(c, call) == calls' = [calls EXCEPT ![c] = call]

\* ---- RssService.addFeed, one Redis command per step ----
addFeed_call(c, feed) ==
  /\ plugin = "rss" /\ CanStart(c)
  /\ Begin(c, [op |-> "addFeed", pc |-> "get", feed |-> feed, feedId |-> feed.options.id,
               old |-> <<>>, i |-> 1, ids |-> <<>>, ret |-> ""])
  /\ UNCHANGED <<plugin, now, uuids, rssVars, mktVars, histVars>>
\* const existingFeed = await this.client.get(`feed:${feedId}`)
addFeed_get(c) ==
  /\ Running(c, "addFeed", "get")
  /\ Becomes(c, [calls[c] EXCEPT
                   !.pc = IF GET(kvFeed, calls[c].feedId) # Null THEN "lrange" ELSE "set"])
  /\ UNCHANGED <<plugin, now, uuids, rssVars, mktVars, histVars>>
\* const oldItemIds = await this.client.lrange(`feed:${feedId}:items`, 0, -1)
addFeed_lrange(c) ==
  LET oldItemIds == LRANGE(kvItems[calls[c].feedId])
  IN  /\ Running(c, "addFeed", "lrange")
      /\ Becomes(c, [calls[c] EXCEPT
                       !.old = oldItemIds,
                       !.pc = IF oldItemIds = <<>> THEN "delList" ELSE "delOld"])
      /\ UNCHANGED <<plugin, now, uuids, rssVars, mktVars, histVars>>
\* await this.client.del(`item:${itemId}`), for each old item id
addFeed_delOld(c) ==
  /\ Running(c, "addFeed", "delOld")
  /\ kvItem' = DEL(kvItem, Head(calls[c].old))
  /\ Becomes(c, [calls[c] EXCEPT
                   !.old = Tail(@),
                   !.pc = IF Tail(calls[c].old) = <<>> THEN "delList" ELSE "delOld"])
  /\ UNCHANGED <<plugin, now, uuids, kvFeed, kvItems, directory, trending, feedTrending,
                 mktVars, histVars>>
\* await this.client.del(`feed:${feedId}:items`)
addFeed_delList(c) ==
  /\ Running(c, "addFeed", "delList")
  /\ kvItems' = [kvItems EXCEPT ![calls[c].feedId] = <<>>]
  /\ Becomes(c, [calls[c] EXCEPT !.pc = "set"])
  /\ UNCHANGED <<plugin, now, uuids, kvFeed, kvItem, directory, trending, feedTrending,
                 mktVars, histVars>>
\* await this.client.set(`feed:${feedId}`, JSON.stringify(feed))
addFeed_set(c) ==
  /\ Running(c, "addFeed", "set")
  /\ kvFeed' = SETKEY(kvFeed, calls[c].feedId, JSONstringify(calls[c].feed))
  /\ Becomes(c, [calls[c] EXCEPT !.pc = "sadd"])
  /\ UNCHANGED <<plugin, now, uuids, kvItems, kvItem, directory, trending, feedTrending,
                 mktVars, histVars>>
\* await this.client.sadd("feeds:directory", feedId)
addFeed_sadd(c) ==
  /\ Running(c, "addFeed", "sadd")
  /\ SADD(directory, calls[c].feedId, directory')
  /\ Becomes(c, IF calls[c].feed.items = <<>>
                  THEN [calls[c] EXCEPT !.pc = "returned", !.ret = calls[c].feedId]
                  ELSE [calls[c] EXCEPT !.pc = "setItem"])
  /\ UNCHANGED <<plugin, now, uuids, kvFeed, kvItems, kvItem, trending, feedTrending,
                 mktVars, histVars>>
\* await this.client.set(`item:${itemId}`, JSON.stringify(itemWithId))
addFeed_setItem(c) ==
  LET item == calls[c].feed.items[calls[c].i]
  IN  /\ Running(c, "addFeed", "setItem")
      /\ \E ids \in AssignedIds(<<item>>) :
           /\ kvItem' = SETKEY(kvItem, ids[1], JSONstringify(itemWithId(item, ids[1])))
           /\ uuids' = uuids \cup FreshIn(<<item>>, ids)
           /\ Becomes(c, [calls[c] EXCEPT !.ids = Append(@, ids[1]), !.pc = "lpush"])
      /\ UNCHANGED <<plugin, now, kvFeed, kvItems, directory, trending, feedTrending,
                     mktVars, histVars>>
\* await this.client.lpush(`feed:${feedId}:items`, itemId); the call returns
\* feedId after the last item
addFeed_lpush(c) ==
  LET i == calls[c].i
  IN  /\ Running(c, "addFeed", "lpush")
      /\ kvItems' = [kvItems EXCEPT ![calls[c].feedId] = LPUSH(@, calls[c].ids[i])]
      /\ Becomes(c, IF i = Len(calls[c].feed.items)
                      THEN [calls[c] EXCEPT !.i = i + 1, !.pc = "returned",
                                            !.ret = calls[c].feedId]
                      ELSE [calls[c] EXCEPT !.i = i + 1, !.pc = "setItem"])
      /\ UNCHANGED <<plugin, now, uuids, kvFeed, kvItem, directory, trending, feedTrending,
                     mktVars, histVars>>

\* ---- RssService.deleteFeed, one Redis command per step ----
deleteFeed_call(c, feedId) ==
  /\ plugin = "rss" /\ CanStart(c)
  /\ Begin(c, [op |-> "deleteFeed", pc |-> "lrange", feedId |-> feedId,
               itemIds |-> <<>>, ret |-> ""])
  /\ UNCHANGED <<plugin, now, uuids, rssVars, mktVars, histVars>>
deleteFeed_lrange(c) ==
  LET itemIds == LRANGE(kvItems[calls[c].feedId])
  IN  /\ Running(c, "deleteFeed", "lrange")
      /\ Becomes(c, [calls[c] EXCEPT
                       !.itemIds = itemIds,
                       !.pc = IF itemIds = <<>> THEN "delList" ELSE "delItem"])
      /\ UNCHANGED <<plugin, now, uuids, rssVars, mktVars, histVars>>
deleteFeed_delItem(c) ==
  /\ Running(c, "deleteFeed", "delItem")
  /\ kvItem' = DEL(kvItem, Head(calls[c].itemIds))
  /\ Becomes(c, [calls[c] EXCEPT
                   !.itemIds = Tail(@),
                   !.pc = IF Tail(calls[c].itemIds) = <<>> THEN "delList" ELSE "delItem"])
  /\ UNCHANGED <<plugin, now, uuids, kvFeed, kvItems, directory, trending, feedTrending,
                 mktVars, histVars>>
deleteFeed_delList(c) ==
  /\ Running(c, "deleteFeed", "delList")
  /\ kvItems' = [kvItems EXCEPT ![calls[c].feedId] = <<>>]
  /\ Becomes(c, [calls[c] EXCEPT !.pc = "delFeed"])
  /\ UNCHANGED <<plugin, now, uuids, kvFeed, kvItem, directory, trending, feedTrending,
                 mktVars, histVars>>
deleteFeed_delFeed(c) ==
  /\ Running(c, "deleteFeed", "delFeed")
  /\ kvFeed' = DEL(kvFeed, calls[c].feedId)
  /\ Becomes(c, [calls[c] EXCEPT !.pc = "srem"])
  /\ UNCHANGED <<plugin, now, uuids, kvItems, kvItem, directory, trending, feedTrending,
                 mktVars, histVars>>
deleteFeed_srem(c) ==
  /\ Running(c, "deleteFeed", "srem")
  /\ SREM(directory, calls[c].feedId, directory')
  /\ Becomes(c, [calls[c] EXCEPT !.pc = "returned"])
  /\ UNCHANGED <<plugin, now, uuids, kvFeed, kvItems, kvItem, trending, feedTrending,
                 mktVars, histVars>>

\* ---- RssService.getFeed and getFeedItems, one Redis command per step ----
\* (before: what the call would return if it ran on the store as it is when
\*  the call is made)
getFeed_call(c, feedId) ==
  /\ plugin = "rss" /\ CanStart(c)
  /\ Begin(c, [op |-> "getFeed", pc |-> "get", feedId |-> feedId,
               before |-> getFeed(feedId), ret |-> Null])
  /\ UNCHANGED <<plugin, now, uuids, rssVars, mktVars, histVars>>
getFeed_get(c) ==
  /\ Running(c, "getFeed", "get")
  /\ Becomes(c, [calls[c] EXCEPT !.pc = "returned", !.ret = getFeed(calls[c].feedId)])
  /\ UNCHANGED <<plugin, now, uuids, rssVars, mktVars, histVars>>
getFeedItems_call(c, feedId) ==
  /\ plugin = "rss" /\ CanStart(c)
  /\ Begin(c, [op |-> "getFeedItems", pc |-> "lrange", feedId |-> feedId,
               itemIds |-> <<>>, before |-> getFeedItems(feedId), ret |-> <<>>])
  /\ UNCHANGED <<plugin, now, uuids, rssVars, mktVars, histVars>>
getFeedItems_lrange(c) ==
  LET itemIds == LRANGE(kvItems[calls[c].feedId])
  IN  /\ Running(c, "getFeedItems", "lrange")
      /\ Becomes(c, [calls[c] EXCEPT
                       !.itemIds = itemIds,
                       !.pc = IF itemIds = <<>> THEN "returned" ELSE "get"])
      /\ UNCHANGED <<plugin, now, uuids, rssVars, mktVars, histVars>>
\* const itemData = await this.client.get(`item:${itemId}`); if (itemData) push
getFeedItems_get(c) ==
  /\ Running(c, "getFeedItems", "get")
  /\ Becomes(c, [calls[c] EXCEPT
                   !.ret = @ \o ResolveItems(<<Head(calls[c].itemIds)>>),
                   !.itemIds = Tail(@),
                   !.pc = IF Tail(calls[c].itemIds) = <<>> THEN "returned" ELSE "get"])
  /\ UNCHANGED <<plugin, now, uuids, rssVars, mktVars, histVars>>

\* ---- MarketplaceService.getProduct, one statement per step ----
getProduct_call(c, id) ==
  /\ plugin = "marketplace" /\ CanStart(c)
  /\ Begin(c, [op |-> "getProduct", pc |-> "selectProduct", id |-> id,
               before |-> getProduct(id, TRUE, TRUE),
               row |-> Null, images |-> <<>>, categoryIds |-> {}, ret |-> Null])
  /\ UNCHANGED <<plugin, now, uuids, rssVars, mktVars, histVars>>
\* select from products where id = ? limit 1; if (product.length === 0) return null
getProduct_selectProduct(c) ==
  LET id == calls[c].id
  IN  /\ Running(c, "getProduct", "selectProduct")
      /\ Becomes(c, IF id \notin DOMAIN products
                      THEN [calls[c] EXCEPT !.pc = "returned", !.ret = Null]
                      ELSE [calls[c] EXCEPT !.pc = "selectImages", !.row = products[id]])
      /\ UNCHANGED <<plugin, now, uuids, rssVars, mktVars, histVars>>
\* select from product_images where productId = ? order by position
getProduct_selectImages(c) ==
  /\ Running(c, "getProduct", "selectImages")
  /\ \E images \in OrdersByPosition({img \in productImages : img.productId = calls[c].id}) :
       Becomes(c, [calls[c] EXCEPT !.pc = "selectCategoryIds", !.images = images])
  /\ UNCHANGED <<plugin, now, uuids, rssVars, mktVars, histVars>>
\* select categoryId from product_categories where productId = ?
getProduct_selectCategoryIds(c) ==
  LET categoryIds == {r.categoryId : r \in {x \in productCategories : x.productId = calls[c].id}}
  IN  /\ Running(c, "getProduct", "selectCategoryIds")
      /\ Becomes(c, IF categoryIds = {}
                      THEN [calls[c] EXCEPT
                              !.pc = "returned",
                              !.ret = [row |-> calls[c].row, images |-> calls[c].images,
                                       categories |-> {}]]
                      ELSE [calls[c] EXCEPT !.pc = "selectCategories",
                                            !.categoryIds = categoryIds])
      /\ UNCHANGED <<plugin, now, uuids, rssVars, mktVars, histVars>>
\* select id, name from categories where id in (...); return the product
getProduct_selectCategories(c) ==
  /\ Running(c, "getProduct", "selectCategories")
  /\ Becomes(c, [calls[c] EXCEPT
                   !.pc = "returned",
                   !.ret = [row |-> calls[c].row, images |-> calls[c].images,
                            categories |->
                              {[id |-> k.id, name |-> k.name] :
                                 k \in {r \in categories : r.id \in calls[c].categoryIds}}]])
  /\ UNCHANGED <<plugin, now, uuids, rssVars, mktVars, histVars>>

\* ---- MarketplaceService.deleteProduct: one DELETE statement ----
deleteProduct_call(c, id) ==
  /\ plugin = "marketplace" /\ CanStart(c)
  /\ Begin(c, [op |-> "deleteProduct", pc |-> "delete", id |-> id, ret |-> ""])
  /\ UNCHANGED <<plugin, now, uuids, rssVars, mktVars, histVars>>
deleteProduct_delete(c) ==
  LET id == calls[c].id
  IN  /\ Running(c, "deleteProduct", "delete")
      /\ products' = DEL(products, id)
      /\ productImages' = OnDeleteCascade(productImages, id)
      /\ productCategories' = OnDeleteCascade(productCategories, id)
      /\ collectionProducts' = OnDeleteCascade(collectionProducts, id)
      /\ Becomes(c, [calls[c] EXCEPT !.pc = "returned", !.ret = "success"])
      /\ UNCHANGED <<plugin, now, uuids, rssVars, redis, sellers, categories, collections,
                     mktTrending, histVars>>

\* ---- MarketplaceService.updateProduct: values built at the call, one UPDATE ----
\* updates two callers send for the same product
ConcurrentUpdates == {[name |-> "X2"], [name |-> "X3", price |-> 30], EmptyMap}
\* update products set <values> where id = ?
UpdateSet_OnlyUpdatedAt(row, values) == [row EXCEPT !.updatedAt = values.updatedAt]
UpdateSet(row, values) ==
  [f \in DOMAIN row |-> IF f \in DOMAIN values THEN values[f] ELSE row[f]]
\* (applied: the position of the call's UPDATE among those of the two calls)
updateProduct_call(c, id, updates) ==
  LET values == [f \in (DOMAIN updates \cap UpdatableFields) \cup {"updatedAt"} |->
                   IF f = "updatedAt" THEN now ELSE updates[f]]
  IN  /\ plugin = "marketplace" /\ CanStart(c)
      /\ Begin(c, [op |-> "updateProduct", id |-> id, values |-> values, applied |-> 0,
                   pc |-> IF WriteIssued(values) THEN "update" ELSE "returned",
                   ret |-> IF WriteIssued(values) THEN "" ELSE "success"])
      /\ UNCHANGED <<plugin, now, uuids, rssVars, mktVars, histVars>>
updateProduct_update(c) ==
  LET id == calls[c].id
      other == calls[Other(c)]
  IN  /\ Running(c, "updateProduct", "update")
      /\ products' = IF id \in DOMAIN products
                       THEN [products EXCEPT ![id] = UpdateSet(@, calls[c].values)]
                       ELSE products
      /\ Becomes(c, [calls[c] EXCEPT
                       !.pc = "returned", !.ret = "success",
                       !.applied = IF calls[c].joined /\ other.op = "updateProduct"
                                     THEN other.applied + 1 ELSE 1])
      /\ UNCHANGED <<plugin, now, uuids, rssVars, redis, sellers, categories, collections,
                     productImages, productCategories, collectionProducts, mktTrending,
                     histVars>>

\* ---- RssService.trackItemView, one Redis command per step ----
\* const now = Date.now(), then for (const window of timeWindows) zadd
trackItemView_call(c, itemId) ==
  /\ plugin = "rss" /\ CanStart(c)
  /\ Begin(c, [op |-> "trackItemView", pc |-> "zadd", id |-> itemId, at |-> now,
               w |-> 1, feedIds |-> <<>>, feedId |-> "", ret |-> ""])
  /\ UNCHANGED <<plugin, now, uuids, rssVars, mktVars, histVars>>
trackItemView_zadd(c) ==
  LET w == calls[c].w
  IN  /\ Running(c, "trackItemView", "zadd")
      /\ trending' = [trending EXCEPT ![timeWindows[w]] = ZADD(@, calls[c].at, calls[c].id)]
      /\ Becomes(c, IF w = Len(timeWindows)
                      THEN [calls[c] EXCEPT !.w = 1, !.pc = "smembers"]
                      ELSE [calls[c] EXCEPT !.w = w + 1])
      /\ UNCHANGED <<plugin, now, uuids, kvFeed, kvItems, kvItem, directory, feedTrending,
                     mktVars, histVars>>
trackItemView_smembers(c) ==
  /\ Running(c, "trackItemView", "smembers")
  /\ Becomes(c, [calls[c] EXCEPT !.feedIds = directory,
                                 !.pc = IF directory = <<>> THEN "returned" ELSE "lrange"])
  /\ UNCHANGED <<plugin, now, uuids, rssVars, mktVars, histVars>>
\* lrange of the next feed's list; if (itemIds.includes(itemId)) ... break
trackItemView_lrange(c) ==
  LET feedId == Head(calls[c].feedIds)
      rest == Tail(calls[c].feedIds)
  IN  /\ Running(c, "trackItemView", "lrange")
      /\ Becomes(c, IF calls[c].id \in SeqToSet(LRANGE(kvItems[feedId]))
                      THEN [calls[c] EXCEPT !.feedId = feedId, !.pc = "zaddFeed"]
                      ELSE [calls[c] EXCEPT !.feedIds = rest,
                                            !.pc = IF rest = <<>> THEN "returned"
                                                   ELSE "lrange"])
      /\ UNCHANGED <<plugin, now, uuids, rssVars, mktVars, histVars>>
trackItemView_zaddFeed(c) ==
  LET w == calls[c].w
  IN  /\ Running(c, "trackItemView", "zaddFeed")
      /\ feedTrending' = [feedTrending EXCEPT ![calls[c].feedId][timeWindows[w]] =
                            ZADD(@, calls[c].at, calls[c].id)]
      /\ Becomes(c, IF w = Len(timeWindows)
                      THEN [calls[c] EXCEPT !.pc = "returned"]
                      ELSE [calls[c] EXCEPT !.w = w + 1])
      /\ UNCHANGED <<plugin, now, uuids, kvFeed, kvItems, kvItem, directory, trending,
                     mktVars, histVars>>

\* ---- MarketplaceService.trackProductView, one Redis command per step ----
trackProductView_call(c, input) ==
  /\ plugin = "marketplace" /\ CanStart(c)
  /\ Begin(c, [op |-> "trackProductView", id |-> input.productId, at |-> now, w |-> 1,
               pc |-> IF ~redis THEN "returned" ELSE "zadd",
               ret |-> IF ~redis THEN "success" ELSE ""])
  /\ UNCHANGED <<plugin, now, uuids, rssVars, mktVars, histVars>>
trackProductView_zadd(c) ==
  LET w == calls[c].w
  IN  /\ Running(c, "trackProductView", "zadd")
      /\ mktTrending' = [mktTrending EXCEPT ![timeWindows[w]] =
                           ZADD(@, calls[c].at, calls[c].id)]
      /\ Becomes(c, IF w = Len(timeWindows)
                      THEN [calls[c] EXCEPT !.pc = "returned", !.ret = "success"]
                      ELSE [calls[c] EXCEPT !.w = w + 1])
      /\ UNCHANGED <<plugin, now, uuids, rssVars, redis, sellers, categories, collections,
                     products, productImages, productCategories, collectionProducts,
                     histVars>>

\* a Redis command of a call in flight is rejected: the catch clause turns it
\* into a RedisError and the call ends there
commandFails(c) ==
  /\ plugin = "rss" /\ InFlight(c)
  /\ Becomes(c, [at |-> calls[c].pc] @@
                  [calls[c] EXCEPT !.pc = "failed", !.ret = "RedisError"])
  /\ UNCHANGED <<plugin, now, uuids, rssVars, mktVars, histVars>>

----------------------------------------------------------------------------
NoOp == [op |-> "none", feedId |-> "", itemIds |-> <<>>, ret |-> ""]

Init ==
  /\ plugin \in {"rss", "marketplace"}
  /\ now = 0
  /\ uuids = {}
  /\ kvFeed = EmptyMap
  /\ kvItems = [f \in FeedIds |-> <<>>]
  /\ kvItem = EmptyMap
  /\ directory = <<>>
  /\ trending = [w \in Windows |-> EmptyZ]
  /\ feedTrending = [f \in FeedIds |-> [w \in Windows |-> EmptyZ]]
  /\ redis \in (IF plugin = "marketplace" THEN BOOLEAN ELSE {FALSE})
  /\ sellers = EmptyMap
  /\ categories \in (IF plugin = "marketplace" THEN {{}, SeedCategories} ELSE {{}})
  /\ collections = EmptyMap
  /\ products = EmptyMap
  /\ productImages = {}
  /\ productCategories = {}
  /\ collectionProducts = {}
  /\ mktTrending = [w \in Windows |-> EmptyZ]
  /\ calls = [c \in Slots |-> Idle]
  /\ lastOp = NoOp
  /\ created = EmptyMap
  /\ deleted = EmptyMap
  /\ lastView = EmptyMap
  /\ pushed = [f \in FeedIds |-> <<>>]

\* Content operations of both services
Next ==
  \/ \E feed \in FeedPool : addFeed(feed)
  \/ \E feedId \in FeedIds, item \in ItemPool : addFeedItem(feedId, item)
  \/ \E feedId \in FeedIds : deleteFeed(feedId)
  \/ createSeller(SellerInput1)
  \/ createCollection(CollectionInput1)
  \/ \E input \in ProductPool : createProduct(input)
  \/ \E id \in NamedProductIds : deleteProduct(id)
  \/ \E c \in CollectionIds, p \in NamedProductIds, pos \in Positions :
       addProductToCollection([collectionId |-> c, productId |-> p, position |-> pos])
  \/ \E c \in CollectionIds, p \in NamedProductIds : removeProductFromCollection(c, p)

Spec == Init /\ [][Next]_vars

\* View tracking and the passing of time, over entities that come and go
NextTrending ==
  \/ \E feed \in {Feed1, Feed2} : addFeed(feed)
  \/ \E feedId \in FeedIds : deleteFeed(feedId)
  \/ \E itemId \in NamedItemIds : trackItemView(itemId)
  \/ createSeller(SellerInput1)
  \/ \E input \in ProductPool : createProduct(input)
  \/ \E id \in NamedProductIds : deleteProduct(id)
  \/ \E id \in NamedProductIds : trackProductView([productId |-> id])
  \/ \E d \in Deltas : Tick(d)

SpecTrending == Init /\ [][NextTrending]_vars

\* Products created, updated and read back as time passes
NextUpdate ==
  \/ createSeller(SellerInput1)
  \/ \E input \in ProductPool : createProduct(input)
  \/ \E id \in NamedProductIds, updates \in UpdatePool : updateProduct(id, updates)
  \/ \E d \in Deltas : Tick(d)

SpecUpdate == Init /\ [][NextUpdate]_vars

\* Calls made one after the other, whose store commands may be rejected
NextFailure ==
  \/ \E feed \in {Feed1, Feed1Empty, Feed2NoId} : addFeed_call(1, feed)
  \/ \E c \in Slots : addFeed_get(c)
  \/ \E c \in Slots : addFeed_lrange(c)
  \/ \E c \in Slots : addFeed_delOld(c)
  \/ \E c \in Slots : addFeed_delList(c)
  \/ \E c \in Slots : addFeed_set(c)
  \/ \E c \in Slots : addFeed_sadd(c)
  \/ \E c \in Slots : addFeed_setItem(c)
  \/ \E c \in Slots : addFeed_lpush(c)
  \/ \E c \in Slots : commandFails(c)
  \/ createSeller(SellerInput1)
  \/ \E input \in ProductPool : createProduct(input)

SpecFailure == Init /\ [][NextFailure]_vars

\* Two calls at a time, their store commands interleaved
NextRace ==
  \/ \E c \in Slots, feed \in {Feed1, Feed2} : addFeed_call(c, feed)
  \/ \E c \in Slots : addFeed_get(c)
  \/ \E c \in Slots : addFeed_lrange(c)
  \/ \E c \in Slots : addFeed_delOld(c)
  \/ \E c \in Slots : addFeed_delList(c)
  \/ \E c \in Slots : addFeed_set(c)
  \/ \E c \in Slots : addFeed_sadd(c)
  \/ \E c \in Slots : addFeed_setItem(c)
  \/ \E c \in Slots : addFeed_lpush(c)
  \/ \E c \in Slots, feedId \in FeedIds : deleteFeed_call(c, feedId)
  \/ \E c \in Slots : deleteFeed_lrange(c)
  \/ \E c \in Slots : deleteFeed_delItem(c)
  \/ \E c \in Slots : deleteFeed_delList(c)
  \/ \E c \in Slots : deleteFeed_delFeed(c)
  \/ \E c \in Slots : deleteFeed_srem(c)
  \/ \E c \in Slots, feedId \in FeedIds : getFeed_call(c, feedId)
  \/ \E c \in Slots : getFeed_get(c)
  \/ \E c \in Slots, feedId \in FeedIds : getFeedItems_call(c, feedId)
  \/ \E c \in Slots : getFeedItems_lrange(c)
  \/ \E c \in Slots : getFeedItems_get(c)
  \/ Quiet /\ createSeller(SellerInput1)
  \/ Quiet /\ createProduct(ProductX)
  \/ \E c \in Slots, id \in NamedProductIds : getProduct_call(c, id)
  \/ \E c \in Slots : getProduct_selectProduct(c)
  \/ \E c \in Slots : getProduct_selectImages(c)
  \/ \E c \in Slots : getProduct_selectCategoryIds(c)
  \/ \E c \in Slots : getProduct_selectCategories(c)
  \/ \E c \in Slots, id \in NamedProductIds : deleteProduct_call(c, id)
  \/ \E c \in Slots : deleteProduct_delete(c)
  \/ \E c \in Slots, id \in NamedProductIds, updates \in ConcurrentUpdates :
       updateProduct_call(c, id, updates)
  \/ \E c \in Slots : updateProduct_update(c)

SpecRace == Init /\ [][NextRace]_vars

\* Views of one entity recorded by two calls at a time, as time passes
NextViews ==
  \/ Quiet /\ addFeed(Feed2)
  \/ \E c \in Slots : trackItemView_call(c, "a")
  \/ \E c \in Slots : trackItemView_zadd(c)
  \/ \E c \in Slots : trackItemView_smembers(c)
  \/ \E c \in Slots : trackItemView_lrange(c)
  \/ \E c \in Slots : trackItemView_zaddFeed(c)
  \/ \E c \in Slots : trackProductView_call(c, [productId |-> "p0"])
  \/ \E c \in Slots : trackProductView_zadd(c)
  \/ \E d \in Deltas : Tick(d)

SpecViews == Init /\ [][NextViews]_vars

----------------------------------------------------------------------------
\* C1: a successful create (addFeedItem, createProduct) followed by a get with
\* the returned id, with no write to that id in between, returns a non-null
\* record whose fields equal the submitted input.
ItemEqualsInput(record, id, input) ==
  /\ record # Null
  /\ record.id = id
  /\ input.id # "" => record.id = input.id
  /\ record.title = input.title
  /\ record.date = input.date
  /\ record.published = input.published
  /\ record.category = input.category
ProductEqualsInput(out, id, input) ==
  /\ out # Null
  /\ out.row.id = id
  /\ out.row.sellerId = input.sellerId
  /\ out.row.name = input.name
  /\ out.row.description = input.description
  /\ out.row.price = input.price
  /\ out.row.currency = input.currency
  /\ out.row.availability = input.availability
  /\ out.row.stockQuantity = input.stockQuantity
  /\ out.row.sku = input.sku
  /\ out.row.gtin = input.gtin
  /\ out.row.brand = input.brand
  /\ Len(out.images) = Len(input.images)
  /\ \A i \in 1..Len(input.images) : out.images[i].url = input.images[i].url
  /\ {c.id : c \in out.categories} = SeqToSet(input.categoryIds)
----------------------------------------------------------------------------
\* C2: after deleteProduct(id) succeeds, getProduct(id) returns null, no
\* collection that had id as a member lists it, and its collection_products,
\* product_images and product_categories rows are gone.
C2_DeleteProductCascade ==
  \A id \in DOMAIN deleted :
    /\ getProduct(id, TRUE, TRUE) = {Null}
    /\ \A c \in deleted[id] : \A out \in getCollection(c, TRUE) :
         out # Null => \A i \in 1..Len(out.products) : out.products[i].row.id # id
    /\ \A r \in collectionProducts \cup productImages \cup productCategories :
         r.productId # id
\* a deleted product was in a collection, had images and a category, and the
\* collection still lists another product
C2_Witness ==
  \E id \in DOMAIN deleted :
    /\ deleted[id] # {}
    /\ created = EmptyMap
    /\ \E c \in deleted[id] : \E out \in getCollection(c, TRUE) :
         out # Null /\ Len(out.products) = 1

\* C3: after deleteFeed(feedId) succeeds, getFeed(feedId) is null, getFeeds
\* does not return the feed, getFeedItems(feedId) is empty and getFeedItem is
\* null for every item id that was in the feed's list.
C3_DeleteFeedCascade ==
  lastOp.op = "deleteFeed" =>
    LET feedId == lastOp.feedId
        feeds == getFeeds
    IN  /\ getFeed(feedId) = Null
        /\ \A i \in 1..Len(feeds) : feeds[i].options.id # feedId
        /\ getFeedItems(feedId) = <<>>
        /\ \A i \in 1..Len(lastOp.itemIds) : getFeedItem(feedId, lastOp.itemIds[i]) = Null
\* the deleted feed held an item of addFeed and one added later by addFeedItem
C3_Witness ==
  /\ lastOp.op = "deleteFeed"
  /\ lastOp.feedId = "f2"
  /\ Len(lastOp.itemIds) = 2
  /\ lastOp.itemIds[2] = "u1"
  /\ lastOp.itemIds[1] = "b"
  /\ directory = <<"f1">>

----------------------------------------------------------------------------
\* What the top-K calls return, as ids, and what the view history says
ItemIdsOf(items) == [i \in 1..Len(items) |-> items[i].id]
ProductIdsOf(outs) == [i \in 1..Len(outs) |-> outs[i].row.id]
TopK(timeWindow, limit) ==
  IF plugin = "rss" THEN ItemIdsOf(getTrendingItems(timeWindow, limit))
  ELSE ProductIdsOf(getTrendingProducts(timeWindow, "", limit))
StoreConfigured == plugin = "rss" \/ redis
RecordExists(id) ==
  IF plugin = "rss" THEN id \in DOMAIN kvItem ELSE id \in DOMAIN products
InWindow(id, timeWindow) == now - lastView[id] <= getTimeWindowSeconds(timeWindow)
\* the viewed ids that rank ahead of id: viewed later, or at the same instant
\* with a greater id
ViewedAhead(id) ==
  {x \in DOMAIN lastView :
     lastView[x] > lastView[id] \/ (lastView[x] = lastView[id] /\ StrLess(id, x))}
Listed(id, limit) ==
  StoreConfigured /\ RecordExists(id) /\ Cardinality(ViewedAhead(id)) < limit

IsRanked(ids, timestamp, timeWindow, limit) ==
  /\ Len(ids) <= limit
  /\ \A i \in 1..Len(ids) :
       /\ ids[i] \in DOMAIN timestamp
       /\ timestamp[ids[i]] >= now - getTimeWindowSeconds(timeWindow)
  /\ \A i, j \in 1..Len(ids) : i < j => timestamp[ids[i]] >= timestamp[ids[j]]
TopKIsRanked(feedTimestamp(_, _)) ==
  \A timeWindow \in Windows, limit \in 1..MaxLimit :
    IF plugin = "rss"
      THEN /\ IsRanked(ItemIdsOf(getTrendingItems(timeWindow, limit)),
                       lastView, timeWindow, limit)
           /\ \A feedId \in FeedIds :
                IsRanked(ItemIdsOf(getFeedTrending(feedId, timeWindow, limit)),
                         feedTimestamp(feedId, timeWindow), timeWindow, limit)
      ELSE \A categoryId \in {""} \cup CategoryIds :
             IsRanked(ProductIdsOf(getTrendingProducts(timeWindow, categoryId, limit)),
                      lastView, timeWindow, limit)
LastViewOfEntity(feedId, timeWindow) == lastView
LastViewInFeed(feedId, timeWindow) == feedTrending[feedId][timeWindow]

\* C5 as stated: every top-K result (getTrendingItems, getFeedTrending,
\* getTrendingProducts) is in descending order of the entities' last-view
\* timestamps, has at most limit entries, and holds no entity whose last view
\* is older than now minus the window.
C5_RankedByLastView == TopKIsRanked(LastViewOfEntity)
\* C5 as amended: the same, where for getFeedTrending the timestamp of an item
\* is that of its last view recorded in the queried feed's score set (a view
\* made while that feed was the first in the directory to list the item).
C5_RankedByRecordedView == TopKIsRanked(LastViewInFeed)
\* two items of a feed were viewed an hour apart: both are in the 24h results,
\* the older one has left the 1h results, and limit 1 cuts the list
C5_Witness ==
  /\ plugin = "rss"
  /\ Len(getTrendingItems("24h", 2)) = 2
  /\ Len(getTrendingItems("24h", 1)) = 1
  /\ Len(getTrendingItems("1h", 2)) = 1
  /\ Len(getFeedTrending("f1", "24h", 2)) = 2
  /\ Len(getFeedTrending("f1", "1h", 2)) = 1

WindowDurations ==
  /\ getTimeWindowSeconds("1h") = 3600
  /\ getTimeWindowSeconds("24h") = 86400
  /\ getTimeWindowSeconds("7d") = 604800
  /\ getTimeWindowSeconds("30d") = 2592000
TwoHoursAfter(id) == lastView[id] + 2 * 3600

----------------------------------------------------------------------------
\* What the aggregation calls are specified to return
SinceValues == {"", "1970-01-01T01:00:00Z", "1970-01-01T02:00:00Z"}
NoPaging(since) == [limit |-> 0, offset |-> 0, since |-> since]
Paging(limit, offset, since) == [limit |-> limit, offset |-> offset, since |-> since]
\* the positions of the item lists of the feeds in the directory that resolve
\* to a stored item dated at or after since
StoredEntries(since) ==
  {e \in SeqToSet(directory) \X (1..(MaxListLen + 1)) :
     /\ e[2] <= Len(kvItems[e[1]])
     /\ kvItems[e[1]][e[2]] \in DOMAIN kvItem
     /\ since # "" =>
          ItemTime(JSONparse(kvItem[kvItems[e[1]][e[2]]])) >= DateGetTime(since)}
EntryItem(e) == JSONparse(kvItem[kvItems[e[1]][e[2]]])
IsNewestFirstListOf(list, entries) ==
  /\ Len(list) = Cardinality(entries)
  /\ \A i, j \in 1..Len(list) : i < j => ItemTime(list[i]) >= ItemTime(list[j])
  /\ \A e \in entries :
       Cardinality({i \in 1..Len(list) : list[i] = EntryItem(e)}) =
       Cardinality({x \in entries : EntryItem(x) = EntryItem(e)})
SliceOf(full, limit, offset) == SubSeq(full, offset + 1, Min(offset + limit, Len(full)))

RECURSIVE AllPages(_, _, _, _)
AllPages(limit, offset, since, total) ==
  IF offset >= total THEN <<>>
  ELSE getAllFeedItems(Paging(limit, offset, since))
       \o AllPages(limit, offset + limit, since, total)

\* C7: getAllFeedItems({limit, offset, since}) is the [offset, offset+limit)
\* slice of the list of all stored items of the feeds in the directory dated at
\* or after since, newest first; the pages concatenate to the unpaginated list.
C7_AllItemsPagination ==
  \A since \in SinceValues :
    LET full == getAllFeedItems(NoPaging(since))
    IN  /\ IsNewestFirstListOf(full, StoredEntries(since))
        /\ \A limit \in 1..MaxLimit :
             /\ \A offset \in 0..MaxOffset :
                  getAllFeedItems(Paging(limit, offset, since)) = SliceOf(full, limit, offset)
             /\ AllPages(limit, 0, since, Len(full)) = full
\* two feeds hold three items or more, two of them of equal date, and a since
\* cutoff leaves some out
C7_Witness ==
  /\ Len(directory) = 2
  /\ Len(getAllFeedItems(NoPaging(""))) >= 3
  /\ Len(getAllFeedItems(NoPaging("1970-01-01T02:00:00Z"))) = 2
  /\ \A f \in FeedIds : kvItems[f] # <<>>

\* C8: getFeedItems(feedId) returns the feed's items in insertion order.
C8_InsertionOrder ==
  \A feedId \in FeedIds :
    LET items == getFeedItems(feedId)
    IN  [i \in 1..Len(items) |-> items[i].id] =
        SelectSeq(pushed[feedId], LAMBDA id : id \in DOMAIN kvItem)

\* C9: getAllCategories() is the ascending, duplicate-free list of every
\* feed-level label and every label of every item currently in a feed.
CurrentLabels ==
  LET feeds == getFeeds
  IN  UNION {SeqToSet(feeds[i].categories) : i \in 1..Len(feeds)} \cup
      UNION {ItemLabels(EntryItem(e)) : e \in StoredEntries("")}
C9_AllCategories == getAllCategories = SortStrings(CurrentLabels)

RECURSIVE AllCategoryPages(_, _, _, _)
AllCategoryPages(category, limit, offset, total) ==
  IF offset >= total THEN <<>>
  ELSE getItemsByCategory(category, Paging(limit, offset, ""))
       \o AllCategoryPages(category, limit, offset + limit, total)
FeedCarries(feedId, category) ==
  getFeed(feedId) # Null /\ category \in SeqToSet(getFeed(feedId).categories)
MatchingEntries(category, feedLevel) ==
  {e \in StoredEntries("") :
     category \in ItemLabels(EntryItem(e)) \/ (feedLevel /\ FeedCarries(e[1], category))}
ItemsByCategoryIs(feedLevel) ==
  \A category \in Labels :
    LET full == getItemsByCategory(category, NoPaging(""))
    IN  /\ IsNewestFirstListOf(full, MatchingEntries(category, feedLevel))
        /\ \A limit \in 1..MaxLimit :
             /\ \A offset \in 0..MaxOffset :
                  getItemsByCategory(category, Paging(limit, offset, ""))
                    = SliceOf(full, limit, offset)
             /\ AllCategoryPages(category, limit, 0, Len(full)) = full

\* C10 as stated: items match at entity level or through their feed's labels.
C10_EntityOrFeedLevel == ItemsByCategoryIs(TRUE)
\* C10 as amended: getItemsByCategory returns the [offset, offset+limit) slice
\* of the newest-first list of the items that carry the category themselves
\* (name or term); a label carried only by the item's feed does not match.
C10_EntityLevelOnly == ItemsByCategoryIs(FALSE)
\* two stored items carry "news" and a third sits in a feed labelled "news"
C10_Witness ==
  /\ Cardinality(MatchingEntries("news", FALSE)) = 2
  /\ Cardinality(MatchingEntries("news", TRUE)) = 3

----------------------------------------------------------------------------
StoreVars == <<plugin, now, uuids, rssVars, mktVars>>
NoRedisTopKEmpty ==
  (plugin = "marketplace" /\ ~redis) =>
    \A timeWindow \in Windows, categoryId \in {""} \cup CategoryIds,
       limit \in 1..MaxLimit :
      getTrendingProducts(timeWindow, categoryId, limit) = <<>>
TrackProductViewStep ==
  \E id \in NamedProductIds : trackProductView([productId |-> id])

\* C11: without a Redis store, trackProductView returns success and changes
\* no state, and getTrendingProducts returns the empty list for every input,
\* whatever operations came before.
C11_NoRedisDegrades ==
  [][/\ NoRedisTopKEmpty
     /\ NoRedisTopKEmpty'
     /\ (~redis /\ TrackProductViewStep) =>
          (lastOp'.ret = "success" /\ UNCHANGED StoreVars)]_vars
\* without Redis a stored product was viewed after time had passed
C11_Witness ==
  /\ plugin = "marketplace"
  /\ ~redis
  /\ lastOp.op = "trackProductView"
  /\ lastOp.id \in DOMAIN products
  /\ lastView[lastOp.id] > 0

\* C12: getFeedRss / getFeedAtom fail with a NotFoundError when no feed with
\* the given id exists, and produce a document only when the feed exists.
C12_RenderFeedNotFound ==
  \A feedId \in FeedIds :
    \A r \in {getFeedRss(feedId), getFeedAtom(feedId)} :
      /\ getFeed(feedId) = Null => (~r.ok /\ r.error.name = "NotFoundError")
      /\ r.ok => getFeed(feedId) # Null

----------------------------------------------------------------------------
\* the lookups other than the getFeedItem handler, for ids with no record
MissingIsNull ==
  /\ \A feedId \in FeedIds \ DOMAIN kvFeed :
       getFeed(feedId) = Null /\ getFeedHandler(feedId) = Ok(Null)
  /\ \A feedId \in FeedIds, itemId \in ItemIds \ DOMAIN kvItem :
       getFeedItem(feedId, itemId) = Null
  /\ \A id \in (ProductIds \cup ForeignProductIds) \ DOMAIN products :
       \A images, cats \in BOOLEAN :
         /\ getProduct(id, images, cats) = {Null}
         /\ getProductHandler(id, images, cats) = {Ok(Null)}
  /\ \A id \in CollectionIds \ DOMAIN collections :
       \A prods \in BOOLEAN :
         /\ getCollection(id, prods) = {Null}
         /\ getCollectionHandler(id, prods) = {Ok(Null)}
  /\ \A id \in SellerIds \ DOMAIN sellers :
       getSeller(id) = Null /\ getSellerHandler(id) = Ok(Null)
  /\ \A id \in CategoryIds \ {c.id : c \in categories} :
       getCategory(id) = Null /\ getCategoryHandler(id) = Ok(Null)

\* C13 as stated: a lookup of a record that does not exist returns null and
\* never fails, at the service and through the RPC handlers.
C13_MissingNeverFails ==
  /\ MissingIsNull
  /\ \A feedId \in FeedIds, itemId \in ItemIds \ DOMAIN kvItem :
       LET h == getFeedItemHandler(feedId, itemId)
       IN  h.ok /\ h.value.item = Null
\* C13 as amended: the same, except that the getFeedItem handler fails with
\* NOT_FOUND exactly when the feed named in the request has no record (whether
\* or not the item has one), and otherwise returns the item, null if missing,
\* with the feed's title.
C13_MissingNullButFeedChecked ==
  /\ MissingIsNull
  /\ \A feedId \in FeedIds, itemId \in ItemIds :
       LET h == getFeedItemHandler(feedId, itemId)
       IN  IF feedId \in DOMAIN kvFeed
             THEN /\ h.ok
                  /\ h.value.feedTitle = JSONparse(kvFeed[feedId]).options.title
                  /\ (itemId \notin DOMAIN kvItem <=> h.value.item = Null)
             ELSE ~h.ok /\ h.error.name = "NOT_FOUND"
\* only feed f2 is stored: item a has a record, item b has none
C13_Witness ==
  /\ DOMAIN kvFeed = {"f2"}
  /\ "a" \in DOMAIN kvItem
  /\ "b" \notin DOMAIN kvItem
  /\ ~getFeedItemHandler("f1", "a").ok
  /\ getFeedItemHandler("f2", "b").ok

----------------------------------------------------------------------------
UpdateProductFrame(id, updates) ==
  /\ lastOp'.ret = "success"
  /\ UNCHANGED <<plugin, calls, now, uuids, rssVars, redis, sellers, categories, collections,
                 productImages, productCategories, collectionProducts, mktTrending>>
  /\ DOMAIN products' = DOMAIN products
  /\ \A other \in DOMAIN products \ {id} : products'[other] = products[other]
  /\ id \in DOMAIN products =>
       \A f \in DOMAIN products[id] \ (DOMAIN updates \cup {"updatedAt"}) :
         products'[id][f] = products[id][f]
  /\ DOMAIN updates = {} => products' = products

\* C14: updateProduct(id, updates) changes only the fields present in updates
\* (plus updatedAt) and leaves the other fields, the other products and the
\* other tables unchanged; with no field in updates nothing is written, not
\* even updatedAt; the call returns success.
C14_UpdateProductFrame ==
  [][\A id \in NamedProductIds, updates \in UpdatePool :
       updateProduct(id, updates) => UpdateProductFrame(id, updates)]_vars
\* a product created at time 0 had its price and stock updated later, while
\* the other product kept the values it was created with
C14_Witness ==
  /\ lastOp.op = "updateProduct"
  /\ DOMAIN products = {"p1", "p2"}
  /\ \E id \in DOMAIN products :
       /\ products[id].price = 30
       /\ products[id].createdAt = 0
       /\ products[id].updatedAt > 0
       /\ products[id].name \in {"X", "Y"}
       /\ \A other \in DOMAIN products \ {id} :
            products[other].updatedAt = products[other].createdAt

----------------------------------------------------------------------------
\* nothing is stored under the id, so a delete of it finds nothing to remove
NoProductUnder(id) ==
  /\ id \notin DOMAIN products
  /\ \A r \in productImages \cup productCategories \cup collectionProducts :
       r.productId # id
NoFeedUnder(feedId) ==
  /\ feedId \notin DOMAIN kvFeed
  /\ feedId \notin SeqToSet(directory)
  /\ kvItems[feedId] = <<>>
DeleteProductIdempotent ==
  \A id \in NamedProductIds :
    deleteProduct(id) =>
      /\ lastOp'.ret = "success"
      /\ id \notin DOMAIN products => UNCHANGED StoreVars
      /\ NoProductUnder(id)'

----------------------------------------------------------------------------
ScoreIsNow(zsets, id) ==
  \A timeWindow \in Windows :
    id \in DOMAIN zsets[timeWindow] /\ zsets[timeWindow][id] = now
\* the feeds of the directory whose item list includes the item
ListingFeeds(itemId) ==
  {feedId \in SeqToSet(directory) :
     \E i \in 1..Len(kvItems[feedId]) : kvItems[feedId][i] = itemId}
IsFirstListing(feedId, itemId) ==
  /\ feedId \in ListingFeeds(itemId)
  /\ \A i, j \in 1..Len(directory) :
       (directory[i] = feedId /\ directory[j] \in ListingFeeds(itemId)) => i <= j

\* C16 as stated: after a successful recordView of e at time now, the score of
\* e is now in the score set of each of the four windows, whatever it was
\* before, and when e belongs to a feed the same holds in that feed's score
\* sets.
C16_ViewSetsEveryScore ==
  [][/\ \A itemId \in NamedItemIds :
          trackItemView(itemId) =>
            /\ ScoreIsNow(trending', itemId)
            /\ \A feedId \in ListingFeeds(itemId) :
                 ScoreIsNow(feedTrending'[feedId], itemId)
     /\ \A id \in NamedProductIds :
          trackProductView([productId |-> id]) => ScoreIsNow(mktTrending', id)]_vars
\* C16 as amended: with the score store configured, after recordView of e at
\* time now the score of e is now in the global score set of each of the four
\* windows, whatever it was before; for an item the same holds in the score
\* sets of one feed only, the first feed of the directory whose list includes
\* the item, and the score sets of every other feed stay as they were.  With
\* no store configured nothing is recorded.
C16_ViewSetsScores ==
  [][/\ \A itemId \in NamedItemIds :
          trackItemView(itemId) =>
            /\ ScoreIsNow(trending', itemId)
            /\ \A feedId \in FeedIds :
                 IF IsFirstListing(feedId, itemId)
                   THEN ScoreIsNow(feedTrending'[feedId], itemId)
                   ELSE feedTrending'[feedId] = feedTrending[feedId]
     /\ \A id \in NamedProductIds :
          trackProductView([productId |-> id]) =>
            IF redis THEN ScoreIsNow(mktTrending', id)
            ELSE mktTrending' = mktTrending]_vars
\* an item listed by two feeds was viewed again: its global score and its
\* score in one feed moved to now, its score in the other feed did not
C16_Witness ==
  /\ lastOp.op = "trackItemView"
  /\ now > 0
  /\ LET itemId == lastOp.itemIds[1]
     IN  /\ Cardinality(ListingFeeds(itemId)) = 2
         /\ ScoreIsNow(trending, itemId)
         /\ \E f, g \in FeedIds :
              /\ ScoreIsNow(feedTrending[f], itemId)
              /\ itemId \in DOMAIN feedTrending[g]["1h"]
              /\ feedTrending[g]["1h"][itemId] < now

----------------------------------------------------------------------------
\* the top 2 * limit in-window candidates that still exist and are in the
\* category, in descending score order
KeptCandidates(timeWindow, categoryId, limit) ==
  SelectSeq(ZREVRANGEBYSCORE(mktTrending[timeWindow],
                             now - getTimeWindowSeconds(timeWindow), 2 * limit),
            LAMBDA id : /\ id \in DOMAIN products
                        /\ \E r \in productCategories :
                             r.productId = id /\ r.categoryId = categoryId)

\* C17: getTrendingProducts with a categoryId returns the first limit of the
\* top 2 * limit in-window candidates that still exist and are in the category.
C17_CategoryTrending ==
  redis =>
    \A timeWindow \in Windows, categoryId \in CategoryIds, limit \in 1..MaxLimit :
      LET kept == KeptCandidates(timeWindow, categoryId, limit)
      IN  ProductIdsOf(getTrendingProducts(timeWindow, categoryId, limit)) =
          SubSeq(kept, 1, Min(limit, Len(kept)))

----------------------------------------------------------------------------
RECURSIVE CountItemsOf(_)
CountItemsOf(feeds) ==
  IF feeds = <<>> THEN 0
  ELSE Len(getFeedItems(Head(feeds).options.id)) + CountItemsOf(Tail(feeds))

\* C18: getStats is accurate: totalFeeds is the number of feeds getFeeds
\* returns, totalItems the number of items getFeedItems returns over those
\* feeds, totalCategories the number of distinct labels carried by those feeds
\* and their current items.
C18_StatsAccurate ==
  /\ getStats.totalFeeds = Len(getFeeds)
  /\ getStats.totalItems = CountItemsOf(getFeeds)
  /\ getStats.totalCategories = Cardinality(CurrentLabels)

----------------------------------------------------------------------------
MutatingRoutes ==
  {"createProduct", "updateProduct", "deleteProduct", "createCollection",
   "addProductToCollection", "removeProductFromCollection", "createSeller"}

\* C19: every marketplace operation that mutates products, collections or
\* sellers is mounted behind the protected procedure, so a call made through
\* the app router without an authenticated session leaves the store unchanged.
C19_MutationsNeedSession ==
  [][\A route \in MutatingRoutes :
       appRouterCall(route, FALSE) => UNCHANGED StoreVars]_vars

----------------------------------------------------------------------------
ScoreMembersKept(zsets, zsetsAfter) ==
  \A timeWindow \in Windows : DOMAIN zsets[timeWindow] \subseteq DOMAIN zsetsAfter[timeWindow]

\* C20: no operation (deleteFeed, addFeed over an existing feed, deleteProduct,
\* a view, the passing of time) removes a member from a global or
\* parent-scoped trending score set: every step keeps every member of every
\* score set.
C20_ScoreSetsOnlyGrow ==
  [][/\ ScoreMembersKept(trending, trending')
     /\ \A feedId \in FeedIds : ScoreMembersKept(feedTrending[feedId], feedTrending'[feedId])
     /\ ScoreMembersKept(mktTrending, mktTrending')]_vars
\* an item viewed in a feed that was then deleted is still a member of the
\* global and of the feed's score sets, while the queries no longer list it
C20_Witness ==
  /\ lastOp.op = "deleteFeed"
  /\ \E itemId \in SeqToSet(lastOp.itemIds) :
       /\ itemId \notin DOMAIN kvItem
       /\ itemId \in DOMAIN lastView /\ InWindow(itemId, "1h")
       /\ \A timeWindow \in Windows :
            /\ itemId \in DOMAIN trending[timeWindow]
            /\ itemId \in DOMAIN feedTrending[lastOp.feedId][timeWindow]
            /\ itemId \notin SeqToSet(ItemIdsOf(getTrendingItems(timeWindow, MaxLimit)))
            /\ getFeedTrending(lastOp.feedId, timeWindow, MaxLimit) = <<>>
       /\ \E other \in DOMAIN trending["1h"] : other # itemId

----------------------------------------------------------------------------
Reverse(seq) == [i \in 1..Len(seq) |-> seq[Len(seq) + 1 - i]]
\* the keys an addFeed call had written when its command at pc `at` was rejected
WrittenBefore(call) ==
  LET feedId == call.feedId
      done == call.i - 1
  IN  /\ call.at \in {"sadd", "setItem", "lpush"} =>
           GET(kvFeed, feedId) = JSONstringify(call.feed)
      /\ call.at \in {"setItem", "lpush"} =>
           /\ feedId \in SeqToSet(directory)
           /\ Len(kvItems[feedId]) >= done
           /\ SubSeq(kvItems[feedId], 1, done) = Reverse(SubSeq(call.ids, 1, done))
           /\ \A k \in 1..done : call.ids[k] \in DOMAIN kvItem
      /\ call.at = "lpush" => call.ids[call.i] \in DOMAIN kvItem
\* the rows a createProduct call had inserted when its category insert was rejected
RowsBeforeCategories(id) ==
  /\ id \in DOMAIN products
  /\ \E input \in ProductPool :
       /\ products[id].name = input.name
       /\ products[id].sellerId = input.sellerId
       /\ Cardinality({img \in productImages : img.productId = id}) = Len(input.images)
       /\ input.categoryIds # <<>>
  /\ {r \in productCategories : r.productId = id} = {}

\* C21: multi-step writes are not rolled back. An addFeed call whose command
\* was rejected has reported an error and every key it wrote before stays
\* stored; a createProduct call rejected at the category insert, after the
\* product row went in, has reported an error and the product row and its
\* image rows stay stored.
C21_NoRollback ==
  /\ \A c \in Slots :
       (calls[c].op = "addFeed" /\ calls[c].pc = "failed") =>
         (calls[c].ret = "RedisError" /\ WrittenBefore(calls[c]))
  /\ (plugin = "marketplace" /\ lastOp.op = "createProduct" /\ lastOp.ret = "error"
        /\ DOMAIN sellers # {}) =>
       RowsBeforeCategories(lastOp.id)
\* an addFeed of two items rejected at the push of the second: the feed is
\* listed with one item of two, and the second item's record is stored
\* outside every list
C21_Witness ==
  \E c \in Slots :
    /\ calls[c].op = "addFeed" /\ calls[c].pc = "failed"
    /\ calls[c].at = "lpush" /\ calls[c].i = 2
    /\ Len(calls[c].feed.items) = 2
    /\ Len(kvItems[calls[c].feedId]) = 1
    /\ calls[c].ids[2] \in DOMAIN kvItem
    /\ \A f \in FeedIds : calls[c].ids[2] \notin SeqToSet(kvItems[f])

----------------------------------------------------------------------------
RECURSIVE IsSubSeqOf(_, _)
IsSubSeqOf(s, t) ==
  IF s = <<>> THEN TRUE
  ELSE IF t = <<>> THEN FALSE
  ELSE IF Head(s) = Head(t) THEN IsSubSeqOf(Tail(s), Tail(t))
  ELSE IsSubSeqOf(s, Tail(t))
\* the call in slot c ran alone, or together with a delete of the same entity
OnlyDeleteAlongside(c) ==
  LET call == calls[c]
      other == calls[Other(c)]
  IN  call.joined =>
        \/ call.op \in {"getFeed", "getFeedItems"} /\ other.op = "deleteFeed"
             /\ other.feedId = call.feedId
        \/ call.op = "getProduct" /\ other.op = "deleteProduct" /\ other.id = call.id
\* what a read returned against what was stored when it was called
ReadAsBeforeOrOmitted(call) ==
  CASE call.op = "getFeed" -> call.ret = call.before \/ call.ret = Null
    [] call.op = "getFeedItems" -> IsSubSeqOf(call.ret, call.before)
    [] call.op = "getProduct" ->
         \/ call.ret = Null
         \/ \E b \in call.before \ {Null} :
              /\ call.ret.row = b.row
              /\ IsSubSeqOf(call.ret.images, b.images)
              /\ call.ret.categories \subseteq b.categories
    [] OTHER -> TRUE
\* two updateProduct calls on one product that overlapped and have both ended
UpdatePairDone ==
  /\ \A c \in Slots : /\ calls[c].op = "updateProduct" /\ calls[c].pc = "returned"
                      /\ calls[c].joined
  /\ calls[1].id = calls[2].id
  /\ calls[1].id \in DOMAIN products
AppliedLast(c) == calls[c].applied > 0 /\ calls[c].applied > calls[Other(c)].applied

----------------------------------------------------------------------------
\* an addFeed and a deleteFeed of one feed that overlapped and have both ended
AddDeletePairDone(a) ==
  /\ calls[a].op = "addFeed" /\ calls[Other(a)].op = "deleteFeed"
  /\ calls[a].feedId = calls[Other(a)].feedId
  /\ \A c \in Slots : calls[c].pc = "returned" /\ calls[c].joined

\* C28: once an addFeed(f) and a deleteFeed(f) that ran concurrently have both
\* completed, f is in the feed directory exactly if the feed record of f
\* exists, and every item record the addFeed wrote that is still stored is in
\* f's item list.
C28_DirectoryConsistent ==
  \A a \in Slots :
    AddDeletePairDone(a) =>
      LET f == calls[a].feedId
      IN  /\ f \in SeqToSet(directory) <=> f \in DOMAIN kvFeed
          /\ \A k \in DOMAIN calls[a].ids :
               calls[a].ids[k] \in DOMAIN kvItem =>
                 calls[a].ids[k] \in SeqToSet(kvItems[f])

----------------------------------------------------------------------------
MembershipRows(c, p) ==
  {r \in collectionProducts : r.collectionId = c /\ r.productId = p}
AllProductIds == ProductIds \cup ForeignProductIds
PositionIn(c, p) == (CHOOSE r \in MembershipRows(c, p) : TRUE).position
\* at most one row per pair; getCollection lists the members that exist, each
\* once, by ascending position
MembershipListed ==
  /\ \A c \in CollectionIds, p \in AllProductIds : Cardinality(MembershipRows(c, p)) <= 1
  /\ \A c \in DOMAIN collections : \A out \in getCollection(c, TRUE) :
       LET listed == ProductIdsOf(out.products)
           members == {p \in DOMAIN products : MembershipRows(c, p) # {}}
       IN  /\ SeqToSet(listed) = members
           /\ Len(listed) = Cardinality(members)
           /\ \A i, j \in 1..Len(listed) :
                i < j => PositionIn(c, listed[i]) <= PositionIn(c, listed[j])
\* what each call does to the rows of the pairs
MembershipStep ==
  /\ \A c \in CollectionIds, p \in NamedProductIds, pos \in Positions :
       (addProductToCollection([collectionId |-> c, productId |-> p, position |-> pos])
          /\ lastOp'.ret = "success") =>
         /\ MembershipRows(c, p)' = {[collectionId |-> c, productId |-> p, position |-> pos]}
         /\ \A c2 \in CollectionIds, p2 \in AllProductIds :
              <<c2, p2>> # <<c, p>> => MembershipRows(c2, p2)' = MembershipRows(c2, p2)
  /\ \A c \in CollectionIds, p \in NamedProductIds :
       removeProductFromCollection(c, p) =>
         /\ MembershipRows(c, p)' = {}
         /\ \A c2 \in CollectionIds, p2 \in AllProductIds :
              <<c2, p2>> # <<c, p>> => MembershipRows(c2, p2)' = MembershipRows(c2, p2)
  /\ \A c \in CollectionIds, p \in AllProductIds :
       (MembershipRows(c, p)' # MembershipRows(c, p)) =>
         lastOp'.op \in {"addProductToCollection", "removeProductFromCollection",
                         "deleteProduct"}

----------------------------------------------------------------------------
\* the items a feed was submitted with, under the ids the call gave them
SubmittedItems(feed, ids) == {itemWithId(feed.items[i], ids[i]) : i \in 1..Len(feed.items)}
AddFeedReplaces(feed) ==
  LET feedId == feed.options.id
      previous == SeqToSet(kvItems[feedId])
  IN  addFeed(feed) =>
        /\ lastOp'.ret = feedId
        /\ Cardinality({i \in 1..Len(directory') : directory'[i] = feedId}) = 1
        /\ getFeed(feedId)' = feed
        /\ SeqToSet(getFeedItems(feedId))' = SubmittedItems(feed, lastOp'.itemIds)
        /\ Len(getFeedItems(feedId))' = Len(feed.items)
        /\ feedId \in DOMAIN kvFeed =>
             \A itemId \in previous \ SeqToSet(lastOp'.itemIds) :
               getFeedItem(feedId, itemId)' = Null

\* C24: addFeed returns feed.options.id; afterwards the id is in the directory
\* once, getFeed returns the submitted feed and getFeedItems returns exactly
\* the submitted items; when the feed existed, every item of its previous list
\* that is not in the new feed is no longer retrievable.
C24_AddFeedReplaces == [][\A feed \in FeedPool : AddFeedReplaces(feed)]_vars

----------------------------------------------------------------------------
\* C25: getFeedItem(feedId, itemId) returns an item only when itemId is in the
\* item list of feedId, and the feedTitle the handler returns with an item is
\* the title of a feed whose list contains that item.
C25_GetFeedItemScoped ==
  \A feedId \in FeedIds, itemId \in ItemIds :
    /\ getFeedItem(feedId, itemId) # Null => itemId \in SeqToSet(kvItems[feedId])
    /\ LET out == getFeedItemHandler(feedId, itemId)
       IN  (out.ok /\ out.value.item # Null) =>
             \E f \in DOMAIN kvFeed :
               /\ itemId \in SeqToSet(kvItems[f])
               /\ JSONparse(kvFeed[f]).options.title = out.value.feedTitle

----------------------------------------------------------------------------
\* C26: after any sequence of completed addFeed, addFeedItem and deleteFeed
\* calls, every item id in the item list of every feed of the directory has a
\* stored item record, so getFeedItems returns as many items as the list holds.
C26_ListedItemsStored ==
  plugin = "rss" =>
    \A feedId \in SeqToSet(directory) :
      /\ \A itemId \in SeqToSet(kvItems[feedId]) : itemId \in DOMAIN kvItem
      /\ Len(getFeedItems(feedId)) = Len(kvItems[feedId])

\* C27: after any sequence of addFeed and addFeedItem calls, getFeedItems
\* returns each item of a feed at most once.
C27_NoRepeatedItem ==
  plugin = "rss" =>
    \A feedId \in FeedIds :
      LET items == getFeedItems(feedId)
      IN  \A i, j \in 1..Len(items) : items[i].id = items[j].id => i = j

----------------------------------------------------------------------------
\* the entities that still exist and whose last view lies within the window
LiveInWindow(timeWindow) ==
  {id \in DOMAIN lastView : RecordExists(id) /\ InWindow(id, timeWindow)}

\* C29: a top-K query without category filter returns min(limit, L) entities,
\* L being the number of existing entities last viewed within the window.
C29_TopKFillsSlots ==
  StoreConfigured =>
    \A timeWindow \in Windows, limit \in 1..MaxLimit :
      Len(TopK(timeWindow, limit)) = Min(limit, Cardinality(LiveInWindow(timeWindow)))

----------------------------------------------------------------------------
\* two recordView calls for one entity that overlapped and have both ended
ViewPairDone ==
  /\ StoreConfigured
  /\ \A c \in Slots : /\ calls[c].op \in {"trackItemView", "trackProductView"}
                      /\ calls[c].pc = "returned" /\ calls[c].joined
  /\ calls[1].id = calls[2].id
GlobalScores == IF plugin = "rss" THEN trending ELSE mktTrending
LatestView == IF calls[1].at > calls[2].at THEN calls[1].at ELSE calls[2].at

\* C30: once concurrently running recordView calls for one entity have all
\* completed, the entity has the same score in all four window score sets,
\* the timestamp of the latest of those views.
C30_WindowScoresAgree ==
  ViewPairDone =>
    \A timeWindow \in Windows :
      /\ calls[1].id \in DOMAIN GlobalScores[timeWindow]
      /\ GlobalScores[timeWindow][calls[1].id] = LatestView

====
